---- MODULE Spec2Model ----
(***************************************************************************)
(* The chunked upload protocol of AtlasChat.                               *)
(*                                                                         *)
(* Client side: frontend/client/src/utils/chunkedUpload.js                 *)
(*   createFileChunks, uploadFileInChunks, abortChunkedUpload.             *)
(* Server side: the /init, /chunk, /complete and /abort endpoints          *)
(*   (backend/app/api/upload.py), modelled from their specified interface. *)
(***************************************************************************)
EXTENDS Integers, Sequences, FiniteSets, TLC

VARIABLES
    cf,      \* one call of createFileChunks: its locals and its position
    pg,      \* the progress arithmetic of one failure-free upload loop
    run,     \* the calls of uploadFileInChunks, by run id
    net,     \* the request or response in flight for each run
    ab,      \* the current call of abortChunkedUpload
    srv,     \* the server: sessions, artifacts, next identifier
    direct,  \* the last request made directly against an endpoint
    agent,   \* the AgentSelector component, its debounced functions and the clock
    chat,    \* the ChatContainer component: messages, sendMessage calls, the clock
    image    \* one ImageWithPlaceholder component: its src prop and its state

vars == <<cf, pg, run, net, ab, srv, direct, agent, chat, image>>

(***************************************************************************)
(* Bounds of the model.                                                    *)
(***************************************************************************)
MaxFileSize == 12       \* file sizes given to createFileChunks alone
MaxChunkSize == 5       \* chunk sizes given to createFileChunks alone
MaxTotalChunks == 400   \* chunk counts of the progress arithmetic

Min(a, b) == IF a < b THEN a ELSE b

CeilDiv(a, b) == (a + b - 1) \div b

(***************************************************************************)
(* createFileChunks (chunkedUpload.js 15-27).  A chunk is the Blob that    *)
(* file.slice(start, end) returns: the byte range [start, end) of the      *)
(* file.                                                                   *)
(***************************************************************************)
Max(a, b) == IF a > b THEN a ELSE b

\* Blob.slice takes a negative position as counted from the end of the blob
\* and clamps every position to [0, size]
RelativePosition(x, size) == IF x < 0 THEN Max(size + x, 0) ELSE Min(x, size)

SliceFromZero(size, start, end) == [start |-> 0, end |-> end - start]

\* file.slice(start, end): the range [start, end) of the file, empty when the
\* end position is not after the start position
Slice(size, start, end) ==
    LET s == RelativePosition(start, size)
        e == RelativePosition(end, size)
    IN [start |-> s, end |-> Max(e, s)]

ChunkEndLong(start, chunkSize, size) == Min(start + chunkSize + 1, size)

ChunkEndWhole(start, chunkSize, size) == size

\* const end = Math.min(start + chunkSize, file.size)
ChunkEnd(start, chunkSize, size) == Min(start + chunkSize, size)

RECURSIVE ChunkLoop(_, _, _, _)
ChunkLoop(chunks, start, chunkSize, size) ==
    IF start < size
    THEN ChunkLoop(Append(chunks, Slice(size, start, ChunkEnd(start, chunkSize, size))),
                   ChunkEnd(start, chunkSize, size), chunkSize, size)
    ELSE chunks

createFileChunksDoWhile(size, chunkSize) ==
    ChunkLoop(<<Slice(size, 0, ChunkEnd(0, chunkSize, size))>>, ChunkEnd(0, chunkSize, size),
              chunkSize, size)

createFileChunks(size, chunkSize) == ChunkLoop(<<>>, 0, chunkSize, size)

\* The same loop, one iteration per step.
\* calls counts the calls made so far and prev keeps the arguments and the
\* result of the call before the current one.
MaxCalls == 2

CfNoPrev == [size |-> 0, chunkSize |-> 1, chunks |-> <<>>]

CfIdle ==
    [pc |-> "idle", size |-> 0, chunkSize |-> 1, start |-> 0, chunks |-> <<>>,
     calls |-> 0, prev |-> CfNoPrev]

\* lines 16-17: const chunks = []; let start = 0;
CfCall(size, chunkSize) ==
    [pc |-> "loop", size |-> size, chunkSize |-> chunkSize, start |-> 0, chunks |-> <<>>,
     calls |-> 1, prev |-> CfNoPrev]

CfCallAfterKeepsChunks(last, size, chunkSize) ==
    [CfCall(size, chunkSize) EXCEPT
        !.chunks = last.chunks,
        !.calls = last.calls + 1,
        !.prev = [size |-> last.size, chunkSize |-> last.chunkSize, chunks |-> last.chunks]]

\* a call made after an earlier call has returned: its locals are new
CfCallAfter(last, size, chunkSize) ==
    [CfCall(size, chunkSize) EXCEPT
        !.calls = last.calls + 1,
        !.prev = [size |-> last.size, chunkSize |-> last.chunkSize, chunks |-> last.chunks]]

\* A call with chunkSize >= 1 makes at most file.size passes, so the limit on
\* the passes explored is never met by such a call.
MaxChunks == MaxFileSize + 1

CreateFileChunksIter ==
    /\ cf.pc = "loop"
    /\ cf.start < cf.size
    /\ Len(cf.chunks) < MaxChunks
    /\ LET end == ChunkEnd(cf.start, cf.chunkSize, cf.size)
       IN cf' = [cf EXCEPT !.chunks = Append(@, Slice(cf.size, cf.start, end)),
                           !.start = end]
    /\ UNCHANGED <<chat, image, agent, pg, run, net, ab, srv, direct>>

CreateFileChunksReturn ==
    /\ cf.pc = "loop"
    /\ ~(cf.start < cf.size)
    /\ cf' = [cf EXCEPT !.pc = "returned"]
    /\ UNCHANGED <<chat, image, agent, pg, run, net, ab, srv, direct>>

CreateFileChunksAgain ==
    /\ cf.pc = "returned"
    /\ cf.calls < MaxCalls
    /\ \E size \in 0..MaxFileSize, chunkSize \in 1..MaxChunkSize :
          cf' = CfCallAfter(cf, size, chunkSize)
    /\ UNCHANGED <<chat, image, agent, pg, run, net, ab, srv, direct>>

(***************************************************************************)
(* IEEE 754 double arithmetic, as far as line 105 needs it:                *)
(*   Math.round((uploadedChunks / totalChunks) * 100)                      *)
(* A positive double is [m, e], the value m / 2^e with 2^52 <= m <= 2^53;  *)
(* m is a little-endian sequence of four limbs in base 2^20, because a     *)
(* 53-bit significand does not fit TLC's integers.                 *)
(***************************************************************************)
LimbBits == 20
LimbBase == 2^LimbBits
NumLimbs == 4
SignificandBits == 53

RECURSIVE BitLen(_)
BitLen(n) == IF n = 0 THEN 0 ELSE 1 + BitLen(n \div 2)

\* x + c * LimbBase^(i-1), carrying upwards
RECURSIVE BigAddAt(_, _, _)
BigAddAt(x, i, c) ==
    IF c = 0 \/ i > NumLimbs THEN x
    ELSE LET s == x[i] + c
         IN BigAddAt([x EXCEPT ![i] = s % LimbBase], i + 1, s \div LimbBase)

\* x * c for a small c
RECURSIVE BigMulFrom(_, _, _, _)
BigMulFrom(x, c, i, carry) ==
    IF i > NumLimbs THEN x
    ELSE LET p == x[i] * c + carry
         IN BigMulFrom([x EXCEPT ![i] = p % LimbBase], c, i + 1, p \div LimbBase)

BigMul(x, c) == BigMulFrom(x, c, 1, 0)

RECURSIVE BigTop(_, _)
BigTop(x, i) == IF i = 0 \/ x[i] # 0 THEN i ELSE BigTop(x, i - 1)

BigBitLen(x) ==
    LET k == BigTop(x, NumLimbs)
    IN IF k = 0 THEN 0 ELSE LimbBits * (k - 1) + BitLen(x[k])

\* floor(x / 2^e) for a result that fits one integer
BigShiftRight(x, e) ==
    LET n == e \div LimbBits
        s == e % LimbBits
        hi == IF n + 2 <= NumLimbs THEN x[n + 2] ELSE 0
        lo == IF n + 1 <= NumLimbs THEN x[n + 1] ELSE 0
    IN (hi * LimbBase + lo) \div (2^s)

\* x rounded to SignificandBits significant bits, ties to even
BigRoundToSignificand(x) ==
    LET d == BigBitLen(x) - SignificandBits
    IN IF d <= 0 THEN x
       ELSE LET low == x[1] % (2^d)
                half == 2^(d - 1)
                odd == (x[1] \div (2^d)) % 2 = 1
                down == [x EXCEPT ![1] = @ - low]
            IN IF low > half \/ (low = half /\ odd)
               THEN BigAddAt(down, 1, 2^d)
               ELSE down

\* long division of top * LimbBase^n by t: the quotient limbs, and the remainder
RECURSIVE LongDiv(_, _, _, _)
LongDiv(x, i, r, t) ==
    IF i = 0 THEN [q |-> x, r |-> r]
    ELSE LET cur == r * LimbBase + x[i]
         IN LongDiv([x EXCEPT ![i] = cur \div t], i - 1, cur % t, t)

\* u / t for 1 <= u <= t, correctly rounded (ties to even)
DoubleDiv(u, t) ==
    LET j == CHOOSE k \in 0..30 : u * 2^k >= t /\ (k = 0 \/ u * 2^(k - 1) < t)
        e == (SignificandBits - 1) + j
        n == e \div LimbBits
        s == e % LimbBits
        num == [i \in 1..NumLimbs |-> IF i = n + 1 THEN u * 2^s ELSE 0]
        d == LongDiv(num, NumLimbs, 0, t)
        odd == d.q[1] % 2 = 1
    IN [m |-> IF 2 * d.r > t \/ (2 * d.r = t /\ odd)
              THEN BigAddAt(d.q, 1, 1)
              ELSE d.q,
        e |-> e]

\* x * c for a small integer c, correctly rounded
DoubleMul(x, c) == [m |-> BigRoundToSignificand(BigMul(x.m, c)), e |-> x.e]

\* Math.round: the nearest integer, ties towards +Infinity: floor(x + 1/2)
MathRound(x) ==
    BigShiftRight(BigAddAt(x.m, ((x.e - 1) \div LimbBits) + 1, 2^((x.e - 1) % LimbBits)),
                  x.e)

PercentTruncated(uploadedChunks, totalChunks) == (uploadedChunks * 100) \div totalChunks

\* progress: Math.round((uploadedChunks / totalChunks) * 100)
Percent(uploadedChunks, totalChunks) ==
    MathRound(DoubleMul(DoubleDiv(uploadedChunks, totalChunks), 100))

\* round(a / b) over the rationals, ties upwards
RoundHalfUp(a, b) == (2 * a + b) \div (2 * b)

IncUploadedTwice(uploadedChunks) == uploadedChunks + 2

\* uploadedChunks++
IncUploaded(uploadedChunks) == uploadedChunks + 1

(***************************************************************************)
(* The progress arithmetic of a failure-free loop (lines 78-119), for      *)
(* chunk counts too large to carry through the whole protocol: each step   *)
(* is one acknowledged chunk, then the complete request.                   *)
(***************************************************************************)
PgIdle == [pc |-> "idle", totalChunks |-> 1, uploadedChunks |-> 0, progress |-> 0]

PgChunkAcked ==
    /\ pg.pc = "loop"
    /\ pg.uploadedChunks < pg.totalChunks
    /\ LET uploadedChunks == IncUploaded(pg.uploadedChunks)
       IN pg' = [pg EXCEPT !.uploadedChunks = uploadedChunks,
                           !.progress = Percent(uploadedChunks, pg.totalChunks)]
    /\ UNCHANGED <<chat, image, agent, cf, run, net, ab, srv, direct>>

PgSendComplete ==
    /\ pg.pc = "loop"
    /\ ~(pg.uploadedChunks < pg.totalChunks)
    /\ pg' = [pg EXCEPT !.pc = "completeSent"]
    /\ UNCHANGED <<chat, image, agent, cf, run, net, ab, srv, direct>>

(***************************************************************************)
(* The server: one session per upload identifier.  The endpoints are not   *)
(* part of the client sources; they follow the interface the client        *)
(* expects: init allocates a fresh identifier, chunk stores one index,     *)
(* complete validates and reassembles, abort discards.                     *)
(***************************************************************************)
NoArtifact == [present |-> FALSE, bytes |-> <<>>]

NoChunks == [i \in {} |-> <<>>]

Resp(ok, err, uploadId, size) ==
    [ok |-> ok, err |-> err, uploadId |-> uploadId, size |-> size]

SrvEmpty == [sessions |-> <<>>]

SessionIds(s) == DOMAIN s.sessions

FullRangeInclusive(session) == 0..session.expected

FullRange(session) == 0..(session.expected - 1)

SessionActiveAnyState(s, id) == id \in SessionIds(s)

SessionActive(s, id) == id \in SessionIds(s) /\ s.sessions[id].state = "active"

CanCompleteAlways(session) == TRUE

\* complete is accepted only when every index has been received
CanComplete(session) == session.received = FullRange(session)

\* the stored chunks joined in index order
RECURSIVE Reassemble(_, _, _)
Reassemble(stored, i, n) ==
    IF i >= n THEN <<>>
    ELSE (IF i \in DOMAIN stored THEN stored[i] ELSE <<>>) \o Reassemble(stored, i + 1, n)

SrvInitResume(s, body, fails) ==
    IF fails THEN [srv |-> s, resp |-> Resp(FALSE, "InitRejected", 0, 0)]
    ELSE IF \E id \in SessionIds(s) : s.sessions[id].declaredSize = body.fileSize
    THEN [srv |-> s,
          resp |-> Resp(TRUE, "None",
                        CHOOSE id \in SessionIds(s) :
                            s.sessions[id].declaredSize = body.fileSize, 0)]
    ELSE [srv |-> [s EXCEPT !.sessions =
                     Append(@, [state |-> "active",
                                declaredSize |-> body.fileSize,
                                expected |-> body.totalChunks,
                                received |-> {},
                                stored |-> NoChunks,
                                artifact |-> NoArtifact,
                                receivedAtAbort |-> 0])],
          resp |-> Resp(TRUE, "None", Len(s.sessions) + 1, 0)]

\* POST /init
SrvInit(s, body, fails) ==
    IF fails THEN [srv |-> s, resp |-> Resp(FALSE, "InitRejected", 0, 0)]
    ELSE [srv |-> [s EXCEPT !.sessions =
                     Append(@, [state |-> "active",
                                declaredSize |-> body.fileSize,
                                expected |-> body.totalChunks,
                                received |-> {},
                                stored |-> NoChunks,
                                artifact |-> NoArtifact,
                                receivedAtAbort |-> 0])],
          resp |-> Resp(TRUE, "None", Len(s.sessions) + 1, 0)]

NeverReceived(session, idx) == FALSE

\* duplicate delivery of an index: the chunk is already in receivedChunks
AlreadyReceived(session, idx) == idx \in session.received

\* POST /chunk
SrvChunk(s, id, idx, bytes, fails) ==
    IF ~SessionActive(s, id)
    THEN [srv |-> s, resp |-> Resp(FALSE, "SessionNotActive", 0, 0)]
    ELSE IF idx \notin FullRange(s.sessions[id])
    THEN [srv |-> s, resp |-> Resp(FALSE, "ChunkIndexOutOfRange", 0, 0)]
    ELSE IF AlreadyReceived(s.sessions[id], idx)
    THEN [srv |-> s, resp |-> Resp(TRUE, "None", id, 0)]
    ELSE IF fails
    THEN [srv |-> s, resp |-> Resp(FALSE, "ChunkWriteFailed", 0, 0)]
    ELSE LET old == s.sessions[id]
             rcv == old.received \cup {idx}
         IN [srv |-> [s EXCEPT !.sessions[id].received = rcv,
                               !.sessions[id].stored =
                                   [i \in rcv |-> IF i = idx THEN bytes ELSE old.stored[i]]],
             resp |-> Resp(TRUE, "None", id, 0)]

\* POST /complete
SrvComplete(s, id, fails) ==
    IF ~SessionActive(s, id)
    THEN [srv |-> s, resp |-> Resp(FALSE, "SessionNotActive", 0, 0)]
    ELSE IF ~CanComplete(s.sessions[id])
    THEN [srv |-> s, resp |-> Resp(FALSE, "IncompleteUploadError", 0, 0)]
    ELSE IF fails
    THEN [srv |-> s, resp |-> Resp(FALSE, "ReassemblyError", 0, 0)]
    ELSE LET old == s.sessions[id]
             bytes == Reassemble([i \in DOMAIN old.stored |-> old.stored[i]], 0, old.expected)
         IN [srv |-> [s EXCEPT !.sessions[id].state = "completed",
                               !.sessions[id].stored = NoChunks,
                               !.sessions[id].artifact = [present |-> TRUE, bytes |-> bytes]],
             resp |-> Resp(TRUE, "None", id, Len(bytes))]

SrvAbortUnguarded(s, id, fails) ==
    IF id \notin SessionIds(s)
    THEN [srv |-> s, resp |-> Resp(FALSE, "SessionNotActive", 0, 0)]
    ELSE [srv |-> [s EXCEPT !.sessions[id].state = "aborted",
                            !.sessions[id].receivedAtAbort =
                                Cardinality(s.sessions[id].received),
                            !.sessions[id].received = {},
                            !.sessions[id].stored = NoChunks,
                            !.sessions[id].artifact = NoArtifact],
          resp |-> Resp(TRUE, "None", id, 0)]

\* POST /abort
SrvAbort(s, id, fails) ==
    IF ~SessionActive(s, id)
    THEN [srv |-> s, resp |-> Resp(FALSE, "SessionNotActive", 0, 0)]
    ELSE IF fails
    THEN [srv |-> s, resp |-> Resp(FALSE, "AbortFailed", 0, 0)]
    ELSE [srv |-> [s EXCEPT !.sessions[id].state = "aborted",
                            !.sessions[id].receivedAtAbort =
                                Cardinality(s.sessions[id].received),
                            !.sessions[id].received = {},
                            !.sessions[id].stored = NoChunks],
          resp |-> Resp(TRUE, "None", id, 0)]

Req(kind, uploadId, chunkIndex, body) ==
    [kind |-> kind, uploadId |-> uploadId, chunkIndex |-> chunkIndex, body |-> body]

Handle(s, req, fails) ==
    CASE req.kind = "init" -> SrvInit(s, req.body, fails)
      [] req.kind = "chunk" -> SrvChunk(s, req.uploadId, req.chunkIndex, req.body, fails)
      [] req.kind = "complete" -> SrvComplete(s, req.uploadId, fails)
      [] req.kind = "abort" -> SrvAbort(s, req.uploadId, fails)

(***************************************************************************)
(* Requests made directly against the endpoints by some caller, one at a   *)
(* time, each handled when it arrives.                                     *)
(***************************************************************************)
MaxDirect == 5          \* direct requests in one behaviour
MaxSessions == 1        \* sessions opened by direct init requests
MaxDirectChunks == 3    \* totalChunks a direct init may declare

DirectIdle == [count |-> 0, req |-> Req("none", 0, 0, <<>>), resp |-> Resp(TRUE, "None", 0, 0)]

DirectPayloads == {<<7>>, <<8>>}

DirectRequest(req, fails) ==
    /\ direct.count < MaxDirect
    /\ LET h == Handle(srv, req, fails)
       IN /\ srv' = h.srv
          /\ direct' = [count |-> direct.count + 1, req |-> req, resp |-> h.resp]
    /\ UNCHANGED <<chat, image, agent, cf, pg, run, net, ab>>

DirectInit ==
    /\ Len(srv.sessions) < MaxSessions
    /\ \E n \in 0..MaxDirectChunks, fails \in BOOLEAN :
          DirectRequest(Req("init", 0, 0, [fileSize |-> n, totalChunks |-> n]), fails)

DirectChunk ==
    \E id \in SessionIds(srv), idx \in 0..MaxDirectChunks,
       bytes \in DirectPayloads, fails \in BOOLEAN :
          DirectRequest(Req("chunk", id, idx, bytes), fails)

DirectComplete ==
    \E id \in SessionIds(srv), fails \in BOOLEAN :
          DirectRequest(Req("complete", id, 0, <<>>), fails)

DirectAbort ==
    \E id \in SessionIds(srv), fails \in BOOLEAN :
          DirectRequest(Req("abort", id, 0, <<>>), fails)

(***************************************************************************)
(* uploadFileInChunks (lines 40-133).  A run is at one of its three        *)
(* awaits, or settled.  Everything the caller and the network can observe  *)
(* of a run is appended to its trace, in program order: each request sent, *)
(* how each fetch ended, and each callback invocation.                     *)
(***************************************************************************)
MaxUploadSize == 5      \* file sizes given to uploadFileInChunks
MaxUploadChunkSize == 2 \* chunk sizes given to uploadFileInChunks
MaxAborts == 2
MaxInterleavedSize == 2          \* calls of abortChunkedUpload in one behaviour

\* the run identifiers, and the runs that are called under Spec
RunIds == {1, 2}
SpecRunIds == {1}

NoError == [origin |-> "none", index |-> 0, cause |-> "none"]

Error(origin, index, cause) == [origin |-> origin, index |-> index, cause |-> cause]

NoResult == [uploadId |-> 0, size |-> 0]

RunIdle(pc) ==
    [pc |-> pc, size |-> 0, chunkSize |-> 1, chunks |-> <<>>, totalChunks |-> 0,
     uploadId |-> 0, i |-> 0, uploadedChunks |-> 0, trace |-> <<>>,
     error |-> NoError, result |-> NoResult]

NetIdle ==
    [stage |-> "none", req |-> Req("none", 0, 0, <<>>),
     resp |-> Resp(TRUE, "None", 0, 0), outcome |-> "none", snapshot |-> {}]

NetRequest(req) == [NetIdle EXCEPT !.stage = "request", !.req = req]

\* the bytes of the file handed to uploadFileInChunks: byte k at offset k
FileBytes(size) == [k \in 1..size |-> k - 1]

\* the bytes of a chunk: the file holds byte k at offset k
Bytes(chunk) == [k \in 1..(chunk.end - chunk.start) |-> chunk.start + k - 1]

\* lines 56-69
InitReq(rec) ==
    Req("init", 0, 0, [fileSize |-> rec.size, totalChunks |-> rec.totalChunks])

ChunkReqSharedId(rec) == Req("chunk", 1, rec.i, Bytes(rec.chunks[rec.i + 1]))

ChunkReqByteOffset(rec) ==
    Req("chunk", rec.uploadId, rec.chunks[rec.i + 1].start, Bytes(rec.chunks[rec.i + 1]))

\* lines 81-94
ChunkReq(rec) == Req("chunk", rec.uploadId, rec.i, Bytes(rec.chunks[rec.i + 1]))

\* lines 110-119
CompleteReq(rec) == Req("complete", rec.uploadId, 0, <<>>)

RequestEvent(req) == [type |-> "request", req |-> req]

\* how the awaited fetch (and the reading of its body) ended
ResponseEvent(kind, index, m) ==
    [type |-> "response", kind |-> kind, chunkIndex |-> index,
     ok |-> (m.outcome = "delivered" /\ m.resp.ok), outcome |-> m.outcome,
     uploadId |-> m.resp.uploadId]

\* await fetch(...) rejects: the request or its response was lost
FetchThrew(m) == m.outcome = "transport"

\* await response.json() rejects
BodyFailed(m) == m.outcome = "body"

NeverNotOk(resp) == FALSE

AlwaysNotOk(resp) == TRUE

\* if (!initResponse.ok)
InitNotOk(resp) == ~resp.ok

\* if (!chunkResponse.ok)
ChunkNotOk(resp) == ~resp.ok

\* if (!completeResponse.ok)
CompleteNotOk(resp) == ~resp.ok

\* if (!response.ok)
AbortNotOk(resp) == ~resp.ok

LoopStopsEarly(i, totalChunks) == i < totalChunks - 1

\* for (...; i < totalChunks; ...)
LoopContinues(i, totalChunks) == i < totalChunks

SkipIndex(i) == i + 2

StayIndex(i) == i

\* for (...; i++)
NextIndex(i) == i + 1

CatchSwallow(rec, error) == [rec EXCEPT !.pc = "resolved"]

CatchRetries(rec, error) ==
    [rec EXCEPT !.pc = "awaitInit", !.uploadId = 0, !.i = 0, !.uploadedChunks = 0,
                !.trace = Append(@, RequestEvent(InitReq(rec)))]

CatchReportsProgress(rec, error) ==
    [rec EXCEPT !.pc = "rejected", !.error = error,
                !.trace = @ \o <<[type |-> "onError", error |-> error],
                                 [type |-> "onProgress", uploadId |-> rec.uploadId,
                                  totalChunks |-> rec.totalChunks,
                                  uploadedChunks |-> rec.uploadedChunks,
                                  progress |-> 0]>>]

\* catch (error) { onError(error); throw error; }
Catch(rec, error) ==
    [rec EXCEPT !.pc = "rejected", !.error = error,
                !.trace = Append(@, [type |-> "onError", error |-> error])]

\* the head of the for loop, and the complete request after it
LoopHead(rec) ==
    IF LoopContinues(rec.i, rec.totalChunks)
    THEN [rec EXCEPT !.pc = "awaitChunk",
                     !.trace = Append(@, RequestEvent(ChunkReq(rec)))]
    ELSE [rec EXCEPT !.pc = "awaitComplete",
                     !.trace = Append(@, RequestEvent(CompleteReq(rec)))]

OutgoingAbortOnFailure(rec) ==
    CASE rec.pc = "awaitInit" -> NetRequest(InitReq(rec))
      [] rec.pc = "awaitChunk" -> NetRequest(ChunkReq(rec))
      [] rec.pc = "awaitComplete" -> NetRequest(CompleteReq(rec))
      [] rec.pc = "rejected" /\ rec.uploadId # 0 ->
             NetRequest(Req("abort", rec.uploadId, 0, <<>>))
      [] OTHER -> NetIdle

\* the request a run has in flight at each await (lines 56, 87, 110); none
\* once it has settled
Outgoing(rec) ==
    CASE rec.pc = "awaitInit" -> NetRequest(InitReq(rec))
      [] rec.pc = "awaitChunk" -> NetRequest(ChunkReq(rec))
      [] rec.pc = "awaitComplete" -> NetRequest(CompleteReq(rec))
      [] OTHER -> NetIdle

Step(r, rec) ==
    /\ run' = [run EXCEPT ![r] = rec]
    /\ net' = [net EXCEPT ![r] = Outgoing(rec)]
    /\ UNCHANGED <<chat, image, agent, cf, pg, ab, srv, direct>>

\* lines 50-69: the call, up to the first await
CallUploadOf(r, sizes, chunkSizes) ==
    /\ run[r].pc = "idle"
    /\ \E size \in sizes, chunkSize \in chunkSizes :
          LET chunks == createFileChunks(size, chunkSize)
              rec == [run[r] EXCEPT !.size = size, !.chunkSize = chunkSize,
                                    !.chunks = chunks, !.totalChunks = Len(chunks),
                                    !.pc = "awaitInit"]
          IN Step(r, [rec EXCEPT !.trace = Append(@, RequestEvent(InitReq(rec)))])

CallUpload(r) == CallUploadOf(r, 0..MaxUploadSize, 1..MaxUploadChunkSize)

\* a call with one of the small files used when two runs are interleaved
CallUploadSmall(r) == CallUploadOf(r, 0..MaxInterleavedSize, {1})

\* lines 71-94: after the init response, up to the next await
OnInitResponse(r) ==
    /\ run[r].pc = "awaitInit"
    /\ net[r].stage = "response"
    /\ LET m == net[r]
           rec == [run[r] EXCEPT !.trace = Append(@, ResponseEvent("init", 0, m))]
       IN IF FetchThrew(m) THEN Step(r, Catch(rec, Error("init", 0, "transport")))
          ELSE IF InitNotOk(m.resp) THEN Step(r, Catch(rec, Error("init", 0, "status")))
          ELSE IF BodyFailed(m) THEN Step(r, Catch(rec, Error("init", 0, "body")))
          ELSE Step(r, LoopHead([rec EXCEPT !.uploadId = m.resp.uploadId,
                                            !.uploadedChunks = 0, !.i = 0]))

\* lines 96-107 and the next pass through the loop head
OnChunkResponse(r) ==
    /\ run[r].pc = "awaitChunk"
    /\ net[r].stage = "response"
    /\ LET m == net[r]
           i == run[r].i
           rec == [run[r] EXCEPT !.trace = Append(@, ResponseEvent("chunk", i, m))]
       IN IF FetchThrew(m) THEN Step(r, Catch(rec, Error("chunk", i, "transport")))
          ELSE IF ChunkNotOk(m.resp) THEN Step(r, Catch(rec, Error("chunk", i, "status")))
          ELSE LET uploadedChunks == IncUploaded(rec.uploadedChunks)
                   event == [type |-> "onProgress",
                             uploadId |-> rec.uploadId,
                             totalChunks |-> rec.totalChunks,
                             uploadedChunks |-> uploadedChunks,
                             progress |-> Percent(uploadedChunks, rec.totalChunks)]
                   called == [rec EXCEPT !.uploadedChunks = uploadedChunks,
                                         !.trace = Append(@, event)]
               IN \E throws \in BOOLEAN :
                     IF throws
                     THEN Step(r, Catch(called, Error("onProgress", i, "callback")))
                     ELSE Step(r, LoopHead([called EXCEPT !.i = NextIndex(i)]))

\* lines 121-128
OnCompleteResponse(r) ==
    /\ run[r].pc = "awaitComplete"
    /\ net[r].stage = "response"
    /\ LET m == net[r]
           rec == [run[r] EXCEPT !.trace = Append(@, ResponseEvent("complete", 0, m))]
       IN IF FetchThrew(m) THEN Step(r, Catch(rec, Error("complete", 0, "transport")))
          ELSE IF CompleteNotOk(m.resp)
          THEN Step(r, Catch(rec, Error("complete", 0, "status")))
          ELSE IF BodyFailed(m) THEN Step(r, Catch(rec, Error("complete", 0, "body")))
          ELSE LET result == [uploadId |-> m.resp.uploadId, size |-> m.resp.size]
                   called == [rec EXCEPT !.trace =
                                  Append(@, [type |-> "onSuccess", result |-> result])]
               IN \E throws \in BOOLEAN :
                     IF throws
                     THEN Step(r, Catch(called, Error("onSuccess", 0, "callback")))
                     ELSE Step(r, [called EXCEPT !.pc = "resolved", !.result = result])

(***************************************************************************)
(* The network between a run and the server.                               *)
(***************************************************************************)
\* what can become of a response on its way back
Deliveries(req, resp) ==
    {"delivered", "transport"}
        \cup (IF resp.ok /\ req.kind \in {"init", "complete", "abort"} THEN {"body"} ELSE {})

\* the request never reaches the server
FetchFails(r) ==
    /\ net[r].stage = "request"
    /\ net' = [net EXCEPT ![r] = [@ EXCEPT !.stage = "response", !.outcome = "transport"]]
    /\ UNCHANGED <<chat, image, agent, cf, pg, run, ab, srv, direct>>

\* the server handles the request of run r
ServerHandle(r) ==
    /\ net[r].stage = "request"
    /\ \E fails \in BOOLEAN :
          LET h == Handle(srv, net[r].req, fails)
          IN /\ srv' = h.srv
             /\ \E d \in Deliveries(net[r].req, h.resp) :
                   net' = [net EXCEPT ![r] = [@ EXCEPT !.stage = "response",
                                                       !.resp = h.resp,
                                                       !.outcome = d]]
    /\ UNCHANGED <<chat, image, agent, cf, pg, run, ab, direct>>

(***************************************************************************)
(* abortChunkedUpload (lines 141-163).                                     *)
(***************************************************************************)
AbIdle ==
    [pc |-> "idle", uploadId |-> 0, calls |-> 0, logged |-> 0, error |-> NoError,
     msg |-> NetIdle]

KnownUploadIds == {run[r].uploadId : r \in RunIds} \ {0}

CatchAbortSwallow(rec, error) == [rec EXCEPT !.pc = "resolved", !.logged = @ + 1]

\* catch (error) { console.error('Error aborting upload:', error); throw error; }
CatchAbort(rec, error) ==
    [rec EXCEPT !.pc = "rejected", !.logged = @ + 1, !.error = error]

\* lines 141-152: the call, up to its await
CallAbort ==
    /\ ab.pc # "await"
    /\ ab.calls < MaxAborts
    /\ \E id \in KnownUploadIds :
          ab' = [pc |-> "await", uploadId |-> id, calls |-> ab.calls + 1, logged |-> 0,
                 error |-> NoError, msg |-> NetRequest(Req("abort", id, 0, <<>>))]
    /\ UNCHANGED <<chat, image, agent, cf, pg, run, net, srv, direct>>

AbortFetchFails ==
    /\ ab.msg.stage = "request"
    /\ ab' = [ab EXCEPT !.msg = [@ EXCEPT !.stage = "response", !.outcome = "transport"]]
    /\ UNCHANGED <<chat, image, agent, cf, pg, run, net, srv, direct>>

ServerHandleAbort ==
    /\ ab.msg.stage = "request"
    /\ \E fails \in BOOLEAN :
          LET h == Handle(srv, ab.msg.req, fails)
          IN /\ srv' = h.srv
             /\ \E d \in Deliveries(ab.msg.req, h.resp) :
                   ab' = [ab EXCEPT !.msg = [@ EXCEPT !.stage = "response",
                                                      !.resp = h.resp,
                                                      !.outcome = d]]
    /\ UNCHANGED <<chat, image, agent, cf, pg, run, net, direct>>

\* lines 154-162
OnAbortResponse ==
    /\ ab.pc = "await"
    /\ ab.msg.stage = "response"
    /\ LET m == ab.msg
       IN ab' = IF FetchThrew(m) THEN CatchAbort(ab, Error("abort", 0, "transport"))
                ELSE IF AbortNotOk(m.resp) THEN CatchAbort(ab, Error("abort", 0, "status"))
                ELSE IF BodyFailed(m) THEN CatchAbort(ab, Error("abort", 0, "body"))
                ELSE [ab EXCEPT !.pc = "resolved"]
    /\ UNCHANGED <<chat, image, agent, cf, pg, run, net, srv, direct>>

(***************************************************************************)
(* AgentSelector.jsx.  The component keeps localSelectedAgent and hands    *)
(* every change to a lodash debounce of selectAgent (wait 500, trailing    *)
(* edge).  useCallback keeps the debounced function while the selectAgent  *)
(* it gets from useApi is the same function, and makes a new one, with its *)
(* own timer, when it is another; the timer of the earlier one is not      *)
(* cancelled.  Time is in ms; the clock moves in ticks of half the wait.   *)
(* A timer never fires early, and no tick passes while one is due; an      *)
(* event of the same instant may be handled before it.                     *)
(***************************************************************************)
DebounceWaitMs == 500
TickMs == DebounceWaitMs \div 2
MaxTicks == 6    \* length of the time line
MaxChanges == 3  \* change events of the select element
MaxRenders == 1  \* renders in which useApi hands out another selectAgent

AgentIds == {"a1", "a2"}

\* a function debounce(func, 500) returned: whether its timer is set, and the
\* arguments and the time of the last call
DebouncedIdle == [pending |-> FALSE, lastArgs |-> "", lastCallTime |-> 0]

\* debounced(agentId): remembers the call and starts the timer if it is not set
DebounceCall(d, agentId, now) ==
    [pending |-> TRUE, lastArgs |-> agentId, lastCallTime |-> now]

\* the timer leads to the trailing call once wait ms have passed since the last call
TimerDue(d, now) == d.pending /\ now - d.lastCallTime >= DebounceWaitMs

AgentIdle ==
    [localSelectedAgent |-> "a1", selectedAgent |-> "a1", selectAgent |-> 1,
     debounced |-> <<DebouncedIdle>>, now |-> 0, changes |-> <<>>, calls |-> <<>>]

\* lines 40-48: handleAgentChange
HandleAgentChange ==
    /\ Len(agent.changes) < MaxChanges
    /\ \E newAgentId \in AgentIds :
          agent' = [agent EXCEPT
                       !.localSelectedAgent = newAgentId,
                       !.debounced[agent.selectAgent] =
                           DebounceCall(@, newAgentId, agent.now),
                       !.changes = Append(@, [agentId |-> newAgentId, at |-> agent.now])]
    /\ UNCHANGED <<chat, image, cf, pg, run, net, ab, srv, direct>>

\* lines 34-36: the trailing call of a debounced function
DebouncedTimerFires ==
    /\ \E v \in DOMAIN agent.debounced :
          /\ TimerDue(agent.debounced[v], agent.now)
          /\ agent' = [agent EXCEPT
                          !.debounced[v].pending = FALSE,
                          !.calls = Append(@, [agentId |-> agent.debounced[v].lastArgs,
                                               at |-> agent.now])]
    /\ UNCHANGED <<chat, image, cf, pg, run, net, ab, srv, direct>>

AgentTick ==
    /\ agent.now < MaxTicks * TickMs
    /\ \A v \in DOMAIN agent.debounced : ~TimerDue(agent.debounced[v], agent.now)
    /\ agent' = [agent EXCEPT !.now = @ + TickMs]
    /\ UNCHANGED <<chat, image, cf, pg, run, net, ab, srv, direct>>

\* lines 7-13 and 33-38: a render in which useApi returns another selectAgent
\* function, so that useCallback returns a new debounced function
RenderWithNewSelectAgent ==
    /\ agent.selectAgent <= MaxRenders
    /\ agent' = [agent EXCEPT !.selectAgent = @ + 1,
                              !.debounced = Append(@, DebouncedIdle)]
    /\ UNCHANGED <<chat, image, cf, pg, run, net, ab, srv, direct>>

\* lines 20-22: the context's selectedAgent has become the agent of the last
\* selectAgent call, and the effect copies it into localSelectedAgent
SelectedAgentChanges ==
    /\ agent.calls # <<>>
    /\ agent.calls[Len(agent.calls)].agentId # agent.selectedAgent
    /\ agent' = [agent EXCEPT
                    !.selectedAgent = agent.calls[Len(agent.calls)].agentId,
                    !.localSelectedAgent = agent.calls[Len(agent.calls)].agentId]
    /\ UNCHANGED <<chat, image, cf, pg, run, net, ab, srv, direct>>

(***************************************************************************)
(* ChatContainer.sendMessage (CodeExecutionComponent.jsx lines 509-545).   *)
(* Several sends can be awaiting api.chat.sendMessage at once; each is a   *)
(* slot of chat.sends.  The clock is Date.now(), in milliseconds.          *)
(***************************************************************************)
MaxChatTicks == 2

SendIds == {1, 2}

\* `temp-${Date.now()}`: the prefix and the decimal digits of the time; two
\* such ids are equal exactly when their times are
TempId(time) == [kind |-> "temp", n |-> time]

\* the id of response.message or response.reply, given by the server
ServerId(n) == [kind |-> "server", n |-> n]

SendIdle == [pc |-> "idle", newMessage |-> TempId(0), at |-> 0]

ChatIdle ==
    [messages |-> <<>>, now |-> 0, sends |-> [s \in SendIds |-> SendIdle],
     error |-> "null", served |-> 0]

\* prev.map(msg => msg.id === id ? changed : msg)
MapMessages(prev, id, changed) ==
    [p \in DOMAIN prev |-> IF prev[p].id = id THEN changed[p] ELSE prev[p]]

\* the updater of the catch (lines 538-540)
MarkFailed(prev, now) ==
    MapMessages(prev, TempId(now),
                [p \in DOMAIN prev |-> [prev[p] EXCEPT !.status = "failed"]])

\* lines 510-524: the call, up to the await; at is the position of the
\* appended message, kept to name it in the properties
SendMessage(s) ==
    /\ chat.sends[s].pc = "idle"
    /\ LET newMessage == [id |-> TempId(chat.now), content |-> s,
                          sender |-> "user", status |-> "sending"]
       IN chat' = [chat EXCEPT
                       !.messages = Append(@, newMessage),
                       !.sends[s] = [pc |-> "awaiting", newMessage |-> newMessage.id,
                                     at |-> Len(chat.messages) + 1]]
    /\ UNCHANGED <<image, cf, pg, run, net, ab, srv, direct, agent>>

\* lines 526-534: api.chat.sendMessage resolved, with or without a reply
SendMessageResolves(s) ==
    /\ chat.sends[s].pc = "awaiting"
    /\ \E reply \in BOOLEAN :
          LET sent == [id |-> ServerId(chat.served + 1), content |-> s,
                       sender |-> "user", status |-> "sent"]
              replaced == MapMessages(chat.messages, chat.sends[s].newMessage,
                                      [p \in DOMAIN chat.messages |-> sent])
              received == [id |-> ServerId(chat.served + 2), content |-> s,
                           sender |-> "agent", status |-> "received"]
          IN chat' = [chat EXCEPT
                          !.messages = IF reply THEN Append(replaced, received)
                                       ELSE replaced,
                          !.served = @ + 2,
                          !.sends[s].pc = "done"]
    /\ UNCHANGED <<image, cf, pg, run, net, ab, srv, direct, agent>>

\* lines 536-544: api.chat.sendMessage rejected
SendMessageRejects(s) ==
    /\ chat.sends[s].pc = "awaiting"
    /\ chat' = [chat EXCEPT !.messages = MarkFailed(@, chat.now),
                            !.error = "Failed to send message",
                            !.sends[s].pc = "failed"]
    /\ UNCHANGED <<image, cf, pg, run, net, ab, srv, direct, agent>>

\* a millisecond passes
ChatTick ==
    /\ chat.now < MaxChatTicks
    /\ chat' = [chat EXCEPT !.now = @ + 1]
    /\ UNCHANGED <<image, cf, pg, run, net, ab, srv, direct, agent>>

(***************************************************************************)
(* ImageWithPlaceholder (ImageWithPlaceholder.jsx).  A URL is the sequence *)
(* of its char codes.  The hash of getPlaceholderColor is a JavaScript     *)
(* number: hash << 5 is a 32-bit integer, but the subtraction and the      *)
(* addition around it are not truncated, so the value leaves the 32-bit    *)
(* range.  It is kept as [hi, lo], the integer hi * 2^16 + lo with         *)
(* 0 <= lo < 2^16.                                                         *)
(***************************************************************************)
MaxUrlLen == 7

\* the char codes of "a" and "z"
UrlChars == {97, 122}

Urls == UNION {[1..n -> UrlChars] : n \in 0..MaxUrlLen}

HalfWord == 2^16

Num(hi, lo) == [hi |-> hi, lo |-> lo]

\* hi * 2^16 + lo with lo any integer, brought to 0 <= lo < 2^16
Normal(hi, lo) == Num(hi + (lo \div HalfWord), lo % HalfWord)

IsNegative(x) == x.hi < 0

\* ToInt32(x) << 5: the low 32 bits of x, shifted, as a signed 32-bit integer
ShiftLeft5(x) ==
    LET lo == x.lo * 32
        hi == ((x.hi % HalfWord) * 32 + (lo \div HalfWord)) % HalfWord
    IN Num(IF hi >= HalfWord \div 2 THEN hi - HalfWord ELSE hi, lo % HalfWord)

NumSub(x, y) == Normal(x.hi - y.hi, x.lo - y.lo)

NumAddSmall(x, c) == Normal(x.hi, x.lo + c)

\* x % 360 of JavaScript: the remainder has the sign of x
Remainder360(x) ==
    LET floorMod == ((x.hi % 360) * (HalfWord % 360) + x.lo) % 360
    IN IF IsNegative(x) /\ floorMod # 0 THEN floorMod - 360 ELSE floorMod

\* hash = src.charCodeAt(i) + ((hash << 5) - hash)   (line 46)
HashStep(hash, charCode) == NumAddSmall(NumSub(ShiftLeft5(hash), hash), charCode)

RECURSIVE HashLoop(_, _, _)
\* the loop of lines 45-47
HashLoop(src, i, hash) ==
    IF i < Len(src) THEN HashLoop(src, i + 1, HashStep(hash, src[i + 1])) ELSE hash

\* lines 40-52; the color is the fixed grey or hsl(hue, 25%, 90%)
getPlaceholderColor(src) ==
    IF src = <<>> THEN [kind |-> "hex", hue |-> 0]
    ELSE [kind |-> "hsl", hue |-> Remainder360(HashLoop(src, 0, Num(0, 0)))]

\* the component as mounted with a src: useState(false) twice (lines 24-25);
\* loading is whether the browser still owes a load or error event for src
ImageIdle(src) ==
    [src |-> src, isLoaded |-> FALSE, hasError |-> FALSE, loading |-> src # <<>>]

\* line 65
PlaceholderShown(im) == ~im.isLoaded /\ ~im.hasError

\* line 93
ErrorShown(im) == im.hasError

\* line 122: display is 'block'
ImageShown(im) == im.isLoaded

\* lines 28-31
HandleImageLoad ==
    /\ image.loading
    /\ image' = [image EXCEPT !.isLoaded = TRUE, !.loading = FALSE]
    /\ UNCHANGED <<chat, cf, pg, run, net, ab, srv, direct, agent>>

\* lines 34-37
HandleImageError ==
    /\ image.loading
    /\ image' = [image EXCEPT !.hasError = TRUE, !.loading = FALSE]
    /\ UNCHANGED <<chat, cf, pg, run, net, ab, srv, direct, agent>>

\* the parent renders the component with another src: the state of lines
\* 24-25 is kept, the img element (line 117) loads the new URL
ImageSrcChanges ==
    /\ \E src \in Urls \ {image.src} :
          image' = [image EXCEPT !.src = src, !.loading = src # <<>>]
    /\ UNCHANGED <<chat, cf, pg, run, net, ab, srv, direct, agent>>

(***************************************************************************)
(* Specifications.                                                         *)
(***************************************************************************)
\* SpecAgent: the AgentSelector component alone
InitAgent ==
    /\ cf = CfIdle
    /\ pg = PgIdle
    /\ run = [r \in RunIds |-> RunIdle("unused")]
    /\ net = [r \in RunIds |-> NetIdle]
    /\ ab = AbIdle
    /\ srv = SrvEmpty
    /\ direct = DirectIdle
    /\ agent = AgentIdle
    /\ chat = ChatIdle
    /\ image = ImageIdle(<<>>)

NextAgent ==
    \/ HandleAgentChange
    \/ DebouncedTimerFires
    \/ AgentTick
    \/ RenderWithNewSelectAgent
    \/ SelectedAgentChanges

SpecAgent == InitAgent /\ [][NextAgent]_vars

\* Spec: uploadFileInChunks, abortChunkedUpload and the server
Init ==
    /\ cf = CfIdle
    /\ pg = PgIdle
    /\ run = [r \in RunIds |-> IF r \in SpecRunIds THEN RunIdle("idle") ELSE RunIdle("unused")]
    /\ net = [r \in RunIds |-> NetIdle]
    /\ ab = AbIdle
    /\ srv = SrvEmpty
    /\ direct = DirectIdle
    /\ agent = AgentIdle
    /\ chat = ChatIdle
    /\ image = ImageIdle(<<>>)

Next ==
    \/ \E r \in RunIds : CallUpload(r)
    \/ \E r \in RunIds : OnInitResponse(r)
    \/ \E r \in RunIds : OnChunkResponse(r)
    \/ \E r \in RunIds : OnCompleteResponse(r)
    \/ \E r \in RunIds : FetchFails(r)
    \/ \E r \in RunIds : ServerHandle(r)
    \/ CallAbort
    \/ AbortFetchFails
    \/ ServerHandleAbort
    \/ OnAbortResponse

Spec == Init /\ [][Next]_vars

\* the continuation of the chunk await can run: OnChunkResponse(r) is enabled
ChunkResponseArrived(r) == run[r].pc = "awaitChunk" /\ net[r].stage = "response"

\* SpecLive: as Spec, where every request sent is answered in the end (by the
\* server or by a network failure) and the continuation of an await runs
\* once its fetch has settled.  The last conjunct is WF_vars(OnChunkResponse(r))
\* written with the enabling condition of that action, which every step of
\* the action ends.
SpecLive ==
    /\ Init
    /\ [][Next]_vars
    /\ \A r \in SpecRunIds : WF_vars(ServerHandle(r) \/ FetchFails(r))
    /\ \A r \in SpecRunIds : WF_vars(OnInitResponse(r) \/ OnCompleteResponse(r))
    /\ \A r \in SpecRunIds : []<>(~ChunkResponseArrived(r))

\* SpecInterleaved: two calls of uploadFileInChunks in flight at once, their
\* steps interleaved at the awaits, with abortChunkedUpload calls in between
InitInterleaved ==
    /\ cf = CfIdle
    /\ pg = PgIdle
    /\ run = [r \in RunIds |-> RunIdle("idle")]
    /\ net = [r \in RunIds |-> NetIdle]
    /\ ab = AbIdle
    /\ srv = SrvEmpty
    /\ direct = DirectIdle
    /\ agent = AgentIdle
    /\ chat = ChatIdle
    /\ image = ImageIdle(<<>>)

NextInterleaved ==
    \/ \E r \in RunIds : CallUploadSmall(r)
    \/ \E r \in RunIds : OnInitResponse(r)
    \/ \E r \in RunIds : OnChunkResponse(r)
    \/ \E r \in RunIds : OnCompleteResponse(r)
    \/ \E r \in RunIds : FetchFails(r)
    \/ \E r \in RunIds : ServerHandle(r)
    \/ CallAbort
    \/ AbortFetchFails
    \/ ServerHandleAbort
    \/ OnAbortResponse

SpecInterleaved == InitInterleaved /\ [][NextInterleaved]_vars

\* SpecChat: the ChatContainer component alone
InitChat ==
    /\ cf = CfIdle
    /\ pg = PgIdle
    /\ run = [r \in RunIds |-> RunIdle("unused")]
    /\ net = [r \in RunIds |-> NetIdle]
    /\ ab = AbIdle
    /\ srv = SrvEmpty
    /\ direct = DirectIdle
    /\ agent = AgentIdle
    /\ chat = ChatIdle
    /\ image = ImageIdle(<<>>)

NextChat ==
    \/ \E s \in SendIds : SendMessage(s)
    \/ \E s \in SendIds : SendMessageResolves(s)
    \/ \E s \in SendIds : SendMessageRejects(s)
    \/ ChatTick

SpecChat == InitChat /\ [][NextChat]_vars

\* SpecImage: one ImageWithPlaceholder component, mounted with any src
InitImage ==
    /\ cf = CfIdle
    /\ pg = PgIdle
    /\ run = [r \in RunIds |-> RunIdle("unused")]
    /\ net = [r \in RunIds |-> NetIdle]
    /\ ab = AbIdle
    /\ srv = SrvEmpty
    /\ direct = DirectIdle
    /\ agent = AgentIdle
    /\ chat = ChatIdle
    /\ \E src \in Urls : image = ImageIdle(src)

NextImage ==
    \/ HandleImageLoad
    \/ HandleImageError
    \/ ImageSrcChanges

SpecImage == InitImage /\ [][NextImage]_vars

(***************************************************************************)
(* Concurrent sendChunk calls for one session (spec.md section 5).  The    *)
(* server takes a chunk request in two steps: it validates the request and *)
(* reads receivedChunks (the snapshot), and later, holding the session's   *)
(* guard, stores the chunk and updates receivedChunks.  Two callers, the   *)
(* slots of net, have requests in the server at once.                      *)
(***************************************************************************)
MaxConcurrentChunks == 3 \* expectedChunkCount of the shared session
MaxConcurrentSends == 4  \* chunk requests sent by the two callers together

CommitBaseSnapshot(session, snapshot) == snapshot

\* the set the update starts from: under the guard, receivedChunks as it is
\* at the update, not as it was when the request was read
CommitBase(session, snapshot) == session.received

SendChunk(c) ==
    /\ net[c].stage \in {"none", "response"}
    /\ direct.count < MaxConcurrentSends
    /\ \E id \in SessionIds(srv), idx \in 0..MaxConcurrentChunks, bytes \in DirectPayloads :
          /\ net' = [net EXCEPT ![c] = NetRequest(Req("chunk", id, idx, bytes))]
          /\ direct' = [direct EXCEPT !.count = @ + 1]
    /\ UNCHANGED <<chat, image, agent, cf, pg, run, ab, srv>>

SendChunkBegin(c) ==
    /\ net[c].stage = "request"
    /\ LET req == net[c].req
           session == srv.sessions[req.uploadId]
       IN IF ~SessionActive(srv, req.uploadId) \/ req.chunkIndex \notin FullRange(session)
          THEN net' = [net EXCEPT ![c] =
                          [@ EXCEPT !.stage = "response", !.outcome = "delivered",
                                    !.resp = SrvChunk(srv, req.uploadId, req.chunkIndex,
                                                      req.body, FALSE).resp]]
          ELSE net' = [net EXCEPT ![c] =
                          [@ EXCEPT !.stage = "handling", !.snapshot = session.received]]
    /\ UNCHANGED <<chat, image, agent, cf, pg, run, ab, srv, direct>>

SendChunkCommit(c) ==
    /\ net[c].stage = "handling"
    /\ \E fails \in BOOLEAN :
          LET req == net[c].req
              id == req.uploadId
              session == srv.sessions[id]
              base == CommitBase(session, net[c].snapshot)
              h == SrvChunk([srv EXCEPT !.sessions[id].received = base,
                                        !.sessions[id].stored =
                                            [i \in base |-> IF i \in DOMAIN session.stored
                                                            THEN session.stored[i]
                                                            ELSE <<>>]],
                            id, req.chunkIndex, req.body, fails)
          IN /\ srv' = h.srv
             /\ net' = [net EXCEPT ![c] =
                            [@ EXCEPT !.stage = "response", !.outcome = "delivered",
                                      !.resp = h.resp]]
    /\ UNCHANGED <<chat, image, agent, cf, pg, run, ab, direct>>

InitConcurrent ==
    /\ cf = CfIdle
    /\ pg = PgIdle
    /\ run = [r \in RunIds |-> RunIdle("unused")]
    /\ net = [r \in RunIds |-> NetIdle]
    /\ ab = AbIdle
    /\ \E n \in 1..MaxConcurrentChunks :
          srv = SrvInit(SrvEmpty, [fileSize |-> n, totalChunks |-> n], FALSE).srv
    /\ direct = DirectIdle
    /\ agent = AgentIdle
    /\ chat = ChatIdle
    /\ image = ImageIdle(<<>>)

NextConcurrent ==
    \/ \E c \in RunIds : SendChunk(c)
    \/ \E c \in RunIds : SendChunkBegin(c)
    \/ \E c \in RunIds : SendChunkCommit(c)

SpecConcurrent == InitConcurrent /\ [][NextConcurrent]_vars

\* SpecChunks: createFileChunks alone, over every size and chunk size in the bounds
InitChunks ==
    /\ \E size \in 0..MaxFileSize, chunkSize \in 1..MaxChunkSize :
          cf = CfCall(size, chunkSize)
    /\ pg = PgIdle
    /\ run = [r \in RunIds |-> RunIdle("unused")]
    /\ net = [r \in RunIds |-> NetIdle]
    /\ ab = AbIdle
    /\ srv = SrvEmpty
    /\ direct = DirectIdle
    /\ agent = AgentIdle
    /\ chat = ChatIdle
    /\ image = ImageIdle(<<>>)

NextChunks == CreateFileChunksIter \/ CreateFileChunksReturn

SpecChunks == InitChunks /\ [][NextChunks]_vars

\* SpecChunksLive: as SpecChunks, the synchronous loop running while it can
SpecChunksLive == InitChunks /\ [][NextChunks]_vars /\ WF_vars(NextChunks)

\* SpecChunksAnySize: createFileChunks given any integer as chunkSize, which
\* it does not validate; the loop is synchronous, so it keeps running while
\* it can
ChunkSizeArgs == (0 - 2)..MaxChunkSize

InitChunksAnySize ==
    /\ \E size \in 0..MaxFileSize, chunkSize \in ChunkSizeArgs :
          cf = CfCall(size, chunkSize)
    /\ pg = PgIdle
    /\ run = [r \in RunIds |-> RunIdle("unused")]
    /\ net = [r \in RunIds |-> NetIdle]
    /\ ab = AbIdle
    /\ srv = SrvEmpty
    /\ direct = DirectIdle
    /\ agent = AgentIdle
    /\ chat = ChatIdle
    /\ image = ImageIdle(<<>>)

SpecChunksAnySize == InitChunksAnySize /\ [][NextChunks]_vars /\ WF_vars(NextChunks)

\* SpecChunksRepeated: createFileChunks called again after it has returned
NextChunksRepeated ==
    \/ CreateFileChunksIter
    \/ CreateFileChunksReturn
    \/ CreateFileChunksAgain

SpecChunksRepeated == InitChunks /\ [][NextChunksRepeated]_vars

\* SpecProgress: the progress events of a failure-free loop, for every chunk count
InitProgress ==
    /\ cf = CfIdle
    /\ \E totalChunks \in 1..MaxTotalChunks :
          pg = [pc |-> "loop", totalChunks |-> totalChunks, uploadedChunks |-> 0,
                progress |-> 0]
    /\ run = [r \in RunIds |-> RunIdle("unused")]
    /\ net = [r \in RunIds |-> NetIdle]
    /\ ab = AbIdle
    /\ srv = SrvEmpty
    /\ direct = DirectIdle
    /\ agent = AgentIdle
    /\ chat = ChatIdle
    /\ image = ImageIdle(<<>>)

NextProgress == PgChunkAcked \/ PgSendComplete

SpecProgress == InitProgress /\ [][NextProgress]_vars

\* SpecServer: the endpoints under direct requests
InitServer ==
    /\ cf = CfIdle
    /\ pg = PgIdle
    /\ run = [r \in RunIds |-> RunIdle("unused")]
    /\ net = [r \in RunIds |-> NetIdle]
    /\ ab = AbIdle
    /\ srv = SrvEmpty
    /\ direct = DirectIdle
    /\ agent = AgentIdle
    /\ chat = ChatIdle
    /\ image = ImageIdle(<<>>)

NextServer == DirectInit \/ DirectChunk \/ DirectComplete \/ DirectAbort

SpecServer == InitServer /\ [][NextServer]_vars

(***************************************************************************)
(* Properties.                                                             *)
(***************************************************************************)
IsRequest(e) == e.type = "request"
IsResponse(e) == e.type = "response"
IsChunkRequest(e) == e.type = "request" /\ e.req.kind = "chunk"
IsChunkResponse(e) == e.type = "response" /\ e.kind = "chunk"
IsFailure(e) == e.type = "response" /\ ~e.ok
IsOnProgress(e) == e.type = "onProgress"
IsOnError(e) == e.type = "onError"
IsOnSuccess(e) == e.type = "onSuccess"

Positions(tr) == 1..Len(tr)

\* C1: for S >= 0 and C > 0 the ranges createFileChunks returns start at 0, each
\* begins where the previous one ended, none overlap, the last ends at S, and
\* there are ceil(S / C) of them (none when S = 0).
C1_ChunksPartitionFile ==
    (cf.pc = "returned" /\ cf.size >= 0 /\ cf.chunkSize > 0) =>
        LET ch == cf.chunks
            n == Len(ch)
        IN /\ n = CeilDiv(cf.size, cf.chunkSize)
           /\ (cf.size = 0 => n = 0)
           /\ (n > 0 => ch[1].start = 0 /\ ch[n].end = cf.size)
           /\ \A k \in 1..(n - 1) : ch[k + 1].start = ch[k].end
           /\ \A k \in 1..n : \A l \in 1..n : k < l => ch[k].end <= ch[l].start
           /\ ch = createFileChunks(cf.size, cf.chunkSize)

C1_Witness ==
    /\ cf.pc = "returned"
    /\ Len(cf.chunks) = 3
    /\ cf.chunks[3].end - cf.chunks[3].start < cf.chunkSize
    /\ cf.chunks[3].end = cf.size

\* C2: within one run the chunk requests carry the indices 0, 1, 2, ... in that
\* order, every chunk request but the latest has been answered before the next
\* one is sent (at most one in flight), and the request for index i+1 is sent
\* only after a success response for index i.
C2_SequentialChunks ==
    \A r \in RunIds :
        LET tr == run[r].trace
            cr == SelectSeq(tr, IsChunkRequest)
            cs == SelectSeq(tr, IsChunkResponse)
        IN /\ \A k \in 1..Len(cr) : cr[k].req.chunkIndex = k - 1
           /\ Len(cr) - Len(cs) \in {0, 1}
           /\ (Len(cr) - Len(cs) = 1) =
                 (net[r].stage \in {"request", "response"} /\ net[r].req.kind = "chunk")
           /\ \A p \in Positions(tr) :
                 (IsChunkRequest(tr[p]) /\ tr[p].req.chunkIndex > 0) =>
                     \E q \in 1..(p - 1) :
                         /\ IsChunkResponse(tr[q])
                         /\ tr[q].chunkIndex = tr[p].req.chunkIndex - 1
                         /\ tr[q].ok
                         /\ \A x \in (q + 1)..(p - 1) : ~IsRequest(tr[x])

C2_Witness ==
    \E r \in RunIds :
        /\ Len(SelectSeq(run[r].trace, IsChunkRequest)) = 3
        /\ net[r].stage = "request"
        /\ net[r].req.chunkIndex = 2

\* C4: when the chunk request for index i fails, the run is rejected at once
\* with the error of that request, and no request (chunk or complete) follows.
C4_ChunkFailureStopsRun ==
    \A r \in RunIds :
        LET tr == run[r].trace
        IN \A p \in Positions(tr) :
              (IsChunkResponse(tr[p]) /\ ~tr[p].ok) =>
                  /\ run[r].pc = "rejected"
                  /\ run[r].error.origin = "chunk"
                  /\ run[r].error.index = tr[p].chunkIndex
                  /\ Len(tr) = p + 1
                  /\ tr[p + 1] = [type |-> "onError", error |-> run[r].error]
                  /\ \A q \in Positions(tr) :
                        IsRequest(tr[q]) =>
                            /\ q < p
                            /\ tr[q].req.kind # "complete"
                            /\ tr[q].req.chunkIndex <= tr[p].chunkIndex
                  /\ net[r].stage = "none"

C4_Witness ==
    \E r \in RunIds :
        /\ run[r].totalChunks = 3
        /\ run[r].pc = "rejected"
        /\ run[r].error = Error("chunk", 1, "transport")
        /\ ab.calls = 0

\* C5: a run sends a chunk or complete request only after its init request was
\* answered with success and an identifier the server issued, and sends it
\* under that identifier; when init fails the run is rejected and has sent
\* nothing but the init request.
C5_NoRequestWithoutSession ==
    \A r \in RunIds :
        LET tr == run[r].trace
        IN /\ \A p \in Positions(tr) :
                 (IsRequest(tr[p]) /\ tr[p].req.kind \in {"chunk", "complete"}) =>
                     /\ p > 2
                     /\ IsResponse(tr[2]) /\ tr[2].kind = "init" /\ tr[2].ok
                     /\ tr[2].uploadId \in SessionIds(srv)
                     /\ tr[p].req.uploadId = tr[2].uploadId
           /\ (Len(tr) >= 2 /\ IsFailure(tr[2])) =>
                 /\ run[r].pc = "rejected"
                 /\ run[r].error.origin = "init"
                 /\ Len(SelectSeq(tr, IsRequest)) = 1
                 /\ net[r].stage = "none"

C5_Witness ==
    \E r \in RunIds :
        /\ run[r].pc = "rejected"
        /\ run[r].error = Error("init", 0, "status")
        /\ run[r].totalChunks = 3

\* C6: onProgress is invoked once right after each successful chunk response
\* and at no other time; the k-th invocation reports uploadedChunks = k; and the
\* event for chunk i precedes the request for chunk i+1.
C6_ProgressPerAck ==
    \A r \in RunIds :
        LET tr == run[r].trace
            ev == SelectSeq(tr, IsOnProgress)
        IN /\ \A p \in Positions(tr) :
                 (IsChunkResponse(tr[p]) /\ tr[p].ok) =>
                     p < Len(tr) /\ IsOnProgress(tr[p + 1])
           /\ \A p \in Positions(tr) :
                 IsOnProgress(tr[p]) =>
                     p > 1 /\ IsChunkResponse(tr[p - 1]) /\ tr[p - 1].ok
           /\ \A k \in 1..Len(ev) : ev[k].uploadedChunks = k
           /\ \A p \in Positions(tr) :
                 (IsChunkRequest(tr[p]) /\ tr[p].req.chunkIndex > 0) =>
                     \E q \in 1..(p - 1) :
                         /\ IsOnProgress(tr[q])
                         /\ tr[q].uploadedChunks = tr[p].req.chunkIndex

C6_Witness ==
    \E r \in RunIds :
        /\ Len(SelectSeq(run[r].trace, IsOnProgress)) = 3
        /\ run[r].pc = "awaitChunk"

\* C9: every failure of the init, chunk or complete step is surfaced: onError
\* is invoked exactly once, with the error of that step, the promise is rejected
\* with the same error, and onSuccess is not invoked.
C9_FailuresSurface ==
    \A r \in RunIds :
        LET tr == run[r].trace
        IN \A p \in Positions(tr) :
              IsFailure(tr[p]) =>
                  /\ run[r].pc = "rejected"
                  /\ run[r].error.origin = tr[p].kind
                  /\ run[r].error.cause =
                        (IF tr[p].outcome = "delivered" THEN "status" ELSE tr[p].outcome)
                  /\ SelectSeq(tr, IsOnError) = <<[type |-> "onError", error |-> run[r].error]>>
                  /\ SelectSeq(tr, IsOnSuccess) = <<>>

C9_Witness ==
    \E r \in RunIds :
        /\ run[r].pc = "rejected"
        /\ run[r].error = Error("complete", 0, "status")
        /\ run[r].uploadedChunks = 3

\* the direct request handled by this step, if any
DirectHandled(kind, id) ==
    /\ direct'.count = direct.count + 1
    /\ direct'.req.kind = kind
    /\ direct'.req.uploadId = id

\* C3: a session is completed only if its receivedChunks is the whole range
\* [0, expectedChunkCount), and a complete request that arrives while an index is
\* missing is rejected with IncompleteUploadError and leaves the session as it was.
C3_CompleteOnlyWhenAllReceived ==
    /\ [](\A id \in SessionIds(srv) :
             srv.sessions[id].state = "completed" =>
                 srv.sessions[id].received = FullRange(srv.sessions[id]))
    /\ [][\A id \in SessionIds(srv) :
             (/\ DirectHandled("complete", id)
              /\ srv.sessions[id].state = "active"
              /\ Cardinality(srv.sessions[id].received) < srv.sessions[id].expected) =>
                 /\ ~direct'.resp.ok
                 /\ direct'.resp.err = "IncompleteUploadError"
                 /\ srv' = srv]_vars

C3_Witness ==
    /\ direct.req.kind = "complete"
    /\ direct.resp.err = "IncompleteUploadError"
    /\ direct.req.uploadId \in SessionIds(srv)
    /\ srv.sessions[direct.req.uploadId].state = "active"
    /\ srv.sessions[direct.req.uploadId].expected = 3
    /\ srv.sessions[direct.req.uploadId].received = {0, 2}

\* C7 (as claimed): every progress event reports round(uploadedChunks /
\* totalChunks * 100), reports 100 only after the last chunk, and the event
\* reporting 100 precedes the complete request.
C7_PercentRoundedAndFullOnlyAtEnd ==
    pg.uploadedChunks >= 1 =>
        /\ pg.progress = RoundHalfUp(100 * pg.uploadedChunks, pg.totalChunks)
        /\ (pg.progress = 100 => pg.uploadedChunks = pg.totalChunks)
        /\ (pg.pc = "completeSent" =>
               pg.progress = 100 /\ pg.uploadedChunks = pg.totalChunks)

\* C8: once a session is aborted it stays aborted, every later chunk or
\* complete request against it fails, and it never has an artifact.
C8_AbortIsFinal ==
    /\ [](\A id \in SessionIds(srv) :
             srv.sessions[id].state = "aborted" => ~srv.sessions[id].artifact.present)
    /\ [][\A id \in SessionIds(srv) :
             srv.sessions[id].state = "aborted" =>
                 /\ srv'.sessions[id].state = "aborted"
                 /\ ~srv'.sessions[id].artifact.present
                 /\ (DirectHandled("chunk", id) \/ DirectHandled("complete", id)) =>
                        ~direct'.resp.ok]_vars

C8_Witness ==
    /\ direct.req.kind = "complete"
    /\ ~direct.resp.ok
    /\ direct.req.uploadId \in SessionIds(srv)
    /\ srv.sessions[direct.req.uploadId].state = "aborted"
    /\ srv.sessions[direct.req.uploadId].expected = 3
    /\ srv.sessions[direct.req.uploadId].receivedAtAbort = 2

\* the abort request of the current call failed: lost, or answered with a
\* non-success response
AbortRequestFailed == FetchThrew(ab.msg) \/ ~ab.msg.resp.ok

AbortSettled == ab.pc \in {"resolved", "rejected"} /\ ab.msg.stage = "response"

\* C10 (as claimed): a failed abort request is logged and not propagated to the
\* caller of abortChunkedUpload.
C10_AbortFailureNotEscalated ==
    (AbortSettled /\ AbortRequestFailed) => (ab.logged = 1 /\ ab.pc # "rejected")

\* C10 (amended): a failed abort request is logged once and then propagated:
\* the promise of abortChunkedUpload is rejected with that failure.
C10_AbortFailureLoggedAndRethrown ==
    (AbortSettled /\ AbortRequestFailed) =>
        /\ ab.logged = 1
        /\ ab.pc = "rejected"
        /\ ab.error.origin = "abort"
        /\ ab.error.cause = (IF FetchThrew(ab.msg) THEN "transport" ELSE "status")

C10_Witness ==
    /\ AbortSettled
    /\ ~FetchThrew(ab.msg)
    /\ ab.msg.resp.err = "AbortFailed"
    /\ ab.pc = "rejected"
    /\ ab.logged = 1

\* C11: a run sends the complete request only after a success response for
\* every index in [0, totalChunks); the server, which stores every chunk it
\* acknowledges, then holds the whole range, and never answers a complete
\* request of the loop with IncompleteUploadError.
C11_CompleteAfterAllAcked ==
    \A r \in RunIds :
        LET tr == run[r].trace
            id == net[r].req.uploadId
        IN /\ \A p \in Positions(tr) :
                 (IsRequest(tr[p]) /\ tr[p].req.kind = "complete") =>
                     \A idx \in 0..(run[r].totalChunks - 1) :
                         \E q \in 1..(p - 1) :
                             IsChunkResponse(tr[q]) /\ tr[q].chunkIndex = idx /\ tr[q].ok
           /\ (net[r].stage = "request" /\ net[r].req.kind = "complete"
                  /\ SessionActive(srv, id)) =>
                 srv.sessions[id].received = 0..(srv.sessions[id].expected - 1)
           /\ (net[r].stage = "response" /\ net[r].req.kind = "complete") =>
                 net[r].resp.err # "IncompleteUploadError"

C11_Witness ==
    \E r \in RunIds :
        /\ net[r].stage = "response"
        /\ net[r].req.kind = "complete"
        /\ net[r].resp.ok
        /\ run[r].totalChunks = 3
        /\ srv.sessions[net[r].req.uploadId].received = {0, 1, 2}

RequestsOf(tr, kind, index) ==
    {p \in Positions(tr) :
        IsRequest(tr[p]) /\ tr[p].req.kind = kind /\ tr[p].req.chunkIndex = index}

\* C13: nothing is retried: a run sends the init request at most once, the
\* chunk request of each index at most once and the complete request at most
\* once, whatever the responses.
C13_NoRetry ==
    \A r \in RunIds :
        LET tr == run[r].trace
        IN /\ Cardinality(RequestsOf(tr, "init", 0)) <= 1
           /\ Cardinality(RequestsOf(tr, "complete", 0)) <= 1
           /\ \A idx \in 0..MaxUploadSize : Cardinality(RequestsOf(tr, "chunk", idx)) <= 1
           /\ Len(SelectSeq(tr, IsRequest)) <= run[r].totalChunks + 2
           /\ \A p \in Positions(tr) :
                 IsFailure(tr[p]) => \A q \in Positions(tr) : IsRequest(tr[q]) => q < p

C13_Witness ==
    \E r \in RunIds :
        /\ run[r].pc = "rejected"
        /\ run[r].error = Error("complete", 0, "transport")
        /\ run[r].totalChunks = 3
        /\ Len(SelectSeq(run[r].trace, IsRequest)) = 5

\* C12: delivering a chunk index the active session already holds is
\* idempotent: the second delivery is answered as a success and leaves
\* receivedChunks, the stored bytes of that index and the rest of the server
\* state as they were.
C12_DuplicateChunkIdempotent ==
    [][\A id \in SessionIds(srv) :
          (/\ DirectHandled("chunk", id)
           /\ srv.sessions[id].state = "active"
           /\ direct'.req.chunkIndex \in srv.sessions[id].received)
          => /\ direct'.resp.ok
             /\ srv'.sessions[id].received = srv.sessions[id].received
             /\ srv'.sessions[id].stored = srv.sessions[id].stored
             /\ srv' = srv]_vars

C12_Witness ==
    \E id \in SessionIds(srv) :
        /\ direct.req = Req("chunk", id, 0, <<8>>)
        /\ direct.resp.ok
        /\ srv.sessions[id].state = "active"
        /\ 0 \in srv.sessions[id].received
        /\ srv.sessions[id].stored[0] = <<7>>

RECURSIVE ChunkLengthSum(_, _)
ChunkLengthSum(chunks, n) ==
    IF n = 0 THEN 0
    ELSE (chunks[n].end - chunks[n].start) + ChunkLengthSum(chunks, n - 1)

\* C14: when the session of a run is completed, the reassembled artifact is
\* byte for byte the file the run was given, and its length is the sum of the
\* lengths of the run's chunks and the fileSize declared at init; the result
\* a resolved run returns reports that length.
C14_RoundTrip ==
    \A r \in RunIds :
        LET rec == run[r]
            id == rec.uploadId
        IN /\ (id \in SessionIds(srv) /\ srv.sessions[id].state = "completed") =>
                 LET session == srv.sessions[id]
                 IN /\ session.artifact.present
                    /\ session.artifact.bytes = FileBytes(rec.size)
                    /\ Len(session.artifact.bytes) = ChunkLengthSum(rec.chunks, Len(rec.chunks))
                    /\ Len(session.artifact.bytes) = session.declaredSize
                    /\ session.declaredSize = rec.size
           /\ rec.pc = "resolved" =>
                 /\ id \in SessionIds(srv)
                 /\ srv.sessions[id].state = "completed"
                 /\ rec.result = [uploadId |-> id, size |-> rec.size]

C14_Witness ==
    \E r \in RunIds :
        /\ run[r].pc = "resolved"
        /\ run[r].size = 5
        /\ run[r].chunkSize = 2
        /\ srv.sessions[run[r].uploadId].artifact.bytes = <<0, 1, 2, 3, 4>>

\* the state machine as claimed, between the states a session rests in:
\* initializing, completing and aborting last for the handling of one request
SessionTransitions ==
    {<<"active", "active">>, <<"active", "completed">>, <<"active", "aborted">>,
     <<"completed", "completed">>, <<"aborted", "aborted">>}

\* C15: a session comes into being active, moves only active -> completed
\* (through a complete request) or active -> aborted (through an abort
\* request), is active again after every acknowledged chunk, never leaves
\* completed or aborted, and is never both completed and aborted.
C15_StateMachine ==
    /\ [](\A id \in SessionIds(srv) :
             /\ srv.sessions[id].state \in {"active", "completed", "aborted"}
             /\ srv.sessions[id].artifact.present <=> srv.sessions[id].state = "completed")
    /\ [][/\ Len(srv'.sessions) >= Len(srv.sessions)
          /\ \A id \in SessionIds(srv') :
                IF id \notin SessionIds(srv)
                THEN /\ srv'.sessions[id].state = "active"
                     /\ DirectHandled("init", 0)
                ELSE LET old == srv.sessions[id].state
                         new == srv'.sessions[id].state
                     IN /\ <<old, new>> \in SessionTransitions
                        /\ (old = "active" /\ new = "completed") =>
                               DirectHandled("complete", id) /\ direct'.resp.ok
                        /\ (old = "active" /\ new = "aborted") =>
                               DirectHandled("abort", id) /\ direct'.resp.ok
                        /\ (DirectHandled("chunk", id) /\ direct'.resp.ok) =>
                               old = "active" /\ new = "active"]_vars

C15_Witness ==
    \E id \in SessionIds(srv) :
        /\ srv.sessions[id].state = "completed"
        /\ srv.sessions[id].expected = 2
        /\ direct.req = Req("abort", id, 0, <<>>)
        /\ ~direct.resp.ok

TransportFailed(rec) == rec.pc = "rejected" /\ rec.error.cause = "transport"

\* C16 (as claimed): after a transport failure during init, a chunk transfer
\* or complete, and as long as abortChunkedUpload has not been called, the
\* session is active, neither aborted nor completed.
C16_FailureLeavesSessionActive ==
    \A r \in RunIds :
        (TransportFailed(run[r]) /\ ab.calls = 0) =>
            \A id \in SessionIds(srv) : srv.sessions[id].state = "active"

\* C16 (amended): a failure is never turned into an abort: a run sends no
\* abort request and has nothing in flight once it has failed, and a session
\* is aborted only after a call of abortChunkedUpload.  After a failed chunk
\* transfer the session is active until such a call; after a transport
\* failure of init there is no session or an active one, and after a
\* transport failure of complete the session is active or already completed.
C16_FailureNotAutoTerminal ==
    /\ \A id \in SessionIds(srv) : srv.sessions[id].state = "aborted" => ab.calls >= 1
    /\ \A r \in RunIds :
          LET rec == run[r]
          IN /\ \A p \in Positions(rec.trace) :
                   IsRequest(rec.trace[p]) => rec.trace[p].req.kind # "abort"
             /\ rec.pc = "rejected" => net[r] = NetIdle
             /\ (rec.pc = "rejected" /\ ab.calls = 0) =>
                   CASE rec.error.origin = "init" ->
                            \A id \in SessionIds(srv) : srv.sessions[id].state = "active"
                     [] rec.error.origin = "chunk" ->
                            /\ SessionActive(srv, rec.uploadId)
                            /\ 0..(rec.error.index - 1) \subseteq
                                   srv.sessions[rec.uploadId].received
                     [] rec.error.origin = "complete" ->
                            /\ rec.uploadId \in SessionIds(srv)
                            /\ srv.sessions[rec.uploadId].state \in {"active", "completed"}
                     [] OTHER -> TRUE

C16_Witness ==
    \E r \in RunIds :
        /\ run[r].pc = "rejected"
        /\ run[r].error = Error("chunk", 1, "transport")
        /\ run[r].totalChunks = 3
        /\ ab.calls = 0
        /\ srv.sessions[run[r].uploadId].state = "active"
        /\ srv.sessions[run[r].uploadId].received = {0}

\* C17: while a session is active its receivedChunks only grows: a successful
\* chunk request adds exactly its index (nothing if it is already there), a
\* failed chunk request and every other request that leaves the session active
\* change nothing, every index is in [0, expectedChunkCount), and the stored
\* chunks are those of receivedChunks.
C17_ReceivedChunksGrow ==
    /\ [](\A id \in SessionIds(srv) :
             srv.sessions[id].state = "active" =>
                 /\ \A idx \in srv.sessions[id].received :
                        0 <= idx /\ idx < srv.sessions[id].expected
                 /\ DOMAIN srv.sessions[id].stored = srv.sessions[id].received)
    /\ [][\A id \in SessionIds(srv) :
             (srv.sessions[id].state = "active" /\ srv'.sessions[id].state = "active") =>
                 LET old == srv.sessions[id].received
                     new == srv'.sessions[id].received
                 IN /\ old \subseteq new
                    /\ \A idx \in old : srv'.sessions[id].stored[idx] = srv.sessions[id].stored[idx]
                    /\ IF DirectHandled("chunk", id)
                       THEN IF direct'.resp.ok
                            THEN new = old \cup {direct'.req.chunkIndex}
                            ELSE srv' = srv
                       ELSE new = old]_vars

C17_Witness ==
    \E id \in SessionIds(srv) :
        /\ srv.sessions[id].state = "active"
        /\ srv.sessions[id].expected = 3
        /\ srv.sessions[id].received = {0, 2}
        /\ direct.req.kind = "chunk"
        /\ direct.req.uploadId = id
        /\ direct.req.chunkIndex = 1
        /\ direct.resp.err = "ChunkWriteFailed"

\* the server answers the abort request of the current abortChunkedUpload call
AbortHandled ==
    /\ ab.msg.stage = "request"
    /\ ab'.msg.stage = "response"
    /\ ab'.msg.outcome # "transport"

\* C18: an abort request for a session that is already aborted or already
\* completed leaves the server state exactly as it was (the session stays
\* aborted, or stays completed with its artifact), and is answered as a
\* success or with the error SessionNotActive, which abortChunkedUpload
\* passes on to its caller as a rejection.
C18_AbortIdempotent ==
    /\ [][\A id \in SessionIds(srv) :
             (/\ AbortHandled
              /\ ab.uploadId = id
              /\ srv.sessions[id].state \in {"aborted", "completed"})
             => /\ srv' = srv
                /\ ab'.msg.resp.ok \/ ab'.msg.resp.err = "SessionNotActive"]_vars
    /\ [](\A id \in SessionIds(srv) :
             srv.sessions[id].state = "completed" => srv.sessions[id].artifact.present)
    /\ [](AbortSettled =>
             IF AbortRequestFailed
             THEN ab.pc = "rejected" /\ ab.error # NoError
             ELSE ab.pc = "resolved" \/ ab.error.cause = "body")

C18_Witness ==
    /\ ab.calls = 2
    /\ ab.pc = "rejected"
    /\ ab.msg.resp.err = "SessionNotActive"
    /\ ab.uploadId \in SessionIds(srv)
    /\ srv.sessions[ab.uploadId].state = "aborted"
    /\ srv.sessions[ab.uploadId].receivedAtAbort = 2

\* run r gets the answer to the request it has in flight
Answered(r) == net[r].stage = "request" /\ net'[r].stage = "response"

\* C19: two interleaved runs are independent.  Each run's requests and
\* progress events carry its own uploadId and totalChunks and its own count
\* 1, 2, ...; the two sessions are distinct; a step of one run leaves the
\* other run as it was; a session is changed only by a request of the run
\* that owns it or by an abort naming it; and a run that resolves has its
\* file as artifact whatever happened to the other run.
C19_RunsIndependent ==
    /\ [](\A r \in RunIds :
             LET tr == run[r].trace
                 ev == SelectSeq(tr, IsOnProgress)
             IN /\ \A k \in 1..Len(ev) :
                       /\ ev[k].uploadId = run[r].uploadId
                       /\ ev[k].totalChunks = run[r].totalChunks
                       /\ ev[k].uploadedChunks = k
                /\ \A p \in Positions(tr) :
                       (IsRequest(tr[p]) /\ tr[p].req.kind # "init") =>
                           tr[p].req.uploadId = run[r].uploadId
                /\ \A o \in RunIds \ {r} :
                       run[r].uploadId # 0 => run[o].uploadId # run[r].uploadId
                /\ run[r].pc = "resolved" =>
                       /\ srv.sessions[run[r].uploadId].state = "completed"
                       /\ srv.sessions[run[r].uploadId].artifact.bytes = FileBytes(run[r].size))
    /\ [][/\ \A r \in RunIds : \A o \in RunIds \ {r} :
                (run'[r] # run[r] \/ net'[r] # net[r]) =>
                    run'[o] = run[o] /\ net'[o] = net[o]
          /\ ab' # ab => run' = run /\ net' = net
          /\ \A id \in SessionIds(srv) :
                srv'.sessions[id] # srv.sessions[id] =>
                    \/ \E r \in RunIds :
                          /\ Answered(r)
                          /\ net[r].req.uploadId = id
                          /\ run[r].uploadId = id
                    \/ /\ ab.msg.stage = "request"
                       /\ ab'.msg.stage = "response"
                       /\ ab.uploadId = id]_vars

C19_Witness ==
    /\ run[1].pc = "rejected"
    /\ run[1].error = Error("chunk", 1, "transport")
    /\ run[1].uploadId = 2
    /\ srv.sessions[2].state = "aborted"
    /\ run[2].pc = "resolved"
    /\ run[2].uploadId = 1
    /\ run[2].totalChunks = 2
    /\ Len(SelectSeq(run[2].trace, IsOnProgress)) = 2

Committed(c) == net[c].stage = "handling" /\ net'[c].stage = "response"

\* C20: concurrent chunk requests for one session are atomic per index: each
\* update has the effect of one whole sendChunk on the state it finds, no
\* index that was received is ever lost, an acknowledged index is in
\* receivedChunks, and an index delivered twice at once is there once, with
\* one stored chunk.
C20_ConcurrentChunksAtomic ==
    /\ [](\A id \in SessionIds(srv) :
             /\ DOMAIN srv.sessions[id].stored = srv.sessions[id].received
             /\ srv.sessions[id].received \subseteq 0..(srv.sessions[id].expected - 1)
             /\ \A c \in RunIds :
                   (/\ net[c].stage = "response"
                    /\ net[c].req.kind = "chunk"
                    /\ net[c].req.uploadId = id
                    /\ net[c].resp.ok) =>
                       net[c].req.chunkIndex \in srv.sessions[id].received)
    /\ [][/\ \A id \in SessionIds(srv) :
                /\ srv.sessions[id].received \subseteq srv'.sessions[id].received
                /\ \A i \in srv.sessions[id].received :
                      srv'.sessions[id].stored[i] = srv.sessions[id].stored[i]
          /\ \A c \in RunIds :
                Committed(c) =>
                    \E fails \in BOOLEAN :
                        LET h == SrvChunk(srv, net[c].req.uploadId, net[c].req.chunkIndex,
                                          net[c].req.body, fails)
                        IN srv' = h.srv /\ net'[c].resp = h.resp]_vars

C20_Witness ==
    /\ \A c \in RunIds :
          /\ net[c].stage = "response"
          /\ net[c].req.kind = "chunk"
          /\ net[c].req.chunkIndex = 0
          /\ net[c].resp.ok
          /\ net[c].snapshot = {}
    /\ net[1].req.body # net[2].req.body
    /\ srv.sessions[1].received = {0}

ChunkLengths(chunks) == [k \in 1..Len(chunks) |-> chunks[k].end - chunks[k].start]

ProgressValues(tr) ==
    LET ev == SelectSeq(tr, IsOnProgress)
    IN [k \in 1..Len(ev) |-> ev[k].progress]

IsPrefix(s, t) == Len(s) <= Len(t) /\ \A k \in 1..Len(s) : s[k] = t[k]

\* C21: a file of 2.5 chunk sizes (S = 2C + C/2) is cut into 3 chunks of
\* lengths C, C and C/2; a run on it reports the percentages 33, 67, 100 in
\* that order, and when it resolves the artifact and the returned result have
\* size S exactly.
C21_ScenarioA ==
    /\ \A half \in 1..(MaxFileSize \div 5) :
          ChunkLengths(createFileChunks(5 * half, 2 * half)) = <<2 * half, 2 * half, half>>
    /\ \A r \in RunIds :
          LET rec == run[r]
          IN (rec.pc # "idle" /\ 2 * rec.size = 5 * rec.chunkSize) =>
                /\ ChunkLengths(rec.chunks) =
                       <<rec.chunkSize, rec.chunkSize, rec.chunkSize \div 2>>
                /\ rec.totalChunks = 3
                /\ IsPrefix(ProgressValues(rec.trace), <<33, 67, 100>>)
                /\ rec.pc \in {"awaitComplete", "resolved"} =>
                       ProgressValues(rec.trace) = <<33, 67, 100>>
                /\ rec.pc = "resolved" =>
                       /\ rec.result.size = rec.size
                       /\ Len(srv.sessions[rec.uploadId].artifact.bytes) = rec.size

C21_Witness ==
    \E r \in RunIds :
        /\ run[r].pc = "resolved"
        /\ run[r].size = 5
        /\ run[r].chunkSize = 2
        /\ ProgressValues(run[r].trace) = <<33, 67, 100>>
        /\ run[r].result.size = 5

\* C22: for S > 0 and C > 0 every chunk createFileChunks produces but the last
\* has length exactly C, the last has a length from 1 to C, namely what is
\* left of S, and no chunk is empty, at any point of the loop.
C22_FixedSizeChunks ==
    (cf.pc # "idle" /\ cf.size > 0 /\ cf.chunkSize > 0) =>
        LET len == ChunkLengths(cf.chunks)
            n == Len(cf.chunks)
        IN /\ \A k \in 1..n : len[k] >= 1 /\ len[k] <= cf.chunkSize
           /\ \A k \in 1..(n - 1) : len[k] = cf.chunkSize
           /\ cf.pc = "returned" =>
                 /\ n >= 1
                 /\ len[n] = cf.size - (n - 1) * cf.chunkSize

C22_Witness ==
    /\ cf.pc = "returned"
    /\ cf.size = 12
    /\ cf.chunkSize = 5
    /\ ChunkLengths(cf.chunks) = <<5, 5, 2>>

\* C23: for a file of length 0 createFileChunks returns the empty sequence,
\* and a run on it sends the init request declaring totalChunks = 0, sends no
\* chunk request, never invokes onProgress, and sends the complete request
\* right after the successful init response: two requests at most.
C23_ZeroLengthFile ==
    /\ \A chunkSize \in 1..MaxChunkSize : createFileChunks(0, chunkSize) = <<>>
    /\ \A r \in RunIds :
          LET rec == run[r]
              tr == rec.trace
          IN (rec.pc \notin {"idle", "unused"} /\ rec.size = 0) =>
                /\ rec.chunks = <<>>
                /\ rec.totalChunks = 0
                /\ tr[1] = RequestEvent(Req("init", 0, 0, [fileSize |-> 0, totalChunks |-> 0]))
                /\ \A p \in Positions(tr) : ~IsChunkRequest(tr[p]) /\ ~IsOnProgress(tr[p])
                /\ (/\ Len(tr) >= 2
                    /\ tr[2].ok
                    /\ tr[2].outcome = "delivered") =>
                       /\ Len(tr) >= 3
                       /\ tr[3] = RequestEvent(Req("complete", rec.uploadId, 0, <<>>))
                /\ Len(SelectSeq(tr, IsRequest)) <= 2

C23_Witness ==
    \E r \in RunIds :
        /\ run[r].pc = "resolved"
        /\ run[r].size = 0
        /\ Len(SelectSeq(run[r].trace, IsRequest)) = 2
        /\ srv.sessions[run[r].uploadId].state = "completed"
        /\ srv.sessions[run[r].uploadId].artifact.bytes = <<>>

IsAckedChunk(e) == IsChunkResponse(e) /\ e.ok

\* C24: once a run has failed, progress is frozen: onError is the last thing
\* the run does, so no onProgress follows it, and the last progress event is
\* that of the last chunk acknowledged before the failure: it carries the number
\* of acknowledged chunks and the percentage of that number.
C24_ProgressFreezes ==
    \A r \in RunIds :
        LET rec == run[r]
            tr == rec.trace
            ev == SelectSeq(tr, IsOnProgress)
            acked == Len(SelectSeq(tr, IsAckedChunk))
        IN /\ \A p \in Positions(tr) :
                 IsOnError(tr[p]) => p = Len(tr) /\ rec.pc = "rejected"
           /\ rec.pc = "rejected" =>
                 /\ IsOnError(tr[Len(tr)])
                 /\ Len(ev) = acked
                 /\ rec.uploadedChunks = acked
                 /\ acked > 0 =>
                       /\ ev[acked].uploadedChunks = acked
                       /\ ev[acked].progress = Percent(acked, rec.totalChunks)
                 /\ rec.error.origin = "chunk" => acked = rec.error.index

C24_Witness ==
    \E r \in RunIds :
        /\ run[r].pc = "rejected"
        /\ run[r].error = Error("chunk", 2, "status")
        /\ run[r].totalChunks = 3
        /\ ProgressValues(run[r].trace) = <<33, 67>>

ChunkRequestIndices(tr) ==
    LET rq == SelectSeq(tr, IsChunkRequest)
    IN [k \in 1..Len(rq) |-> rq[k].req.chunkIndex]

\* C25: no partial resume.  Every successful init creates a session whose id
\* was never issued before, with an empty receivedChunks; a run, also one
\* started after another run has failed, sends its chunks from index 0
\* upwards; and a session holds only indices its own run has sent, so that
\* chunks stored under an earlier session never count for a later one.
C25_NoPartialResume ==
    /\ [](\A r \in RunIds :
             LET rec == run[r]
                 idx == ChunkRequestIndices(rec.trace)
             IN /\ \A k \in 1..Len(idx) : idx[k] = k - 1
                /\ rec.uploadId # 0 =>
                       /\ rec.uploadId \in SessionIds(srv)
                       /\ srv.sessions[rec.uploadId].received \subseteq
                              {idx[k] : k \in 1..Len(idx)}
                       /\ srv.sessions[rec.uploadId].state = "completed" =>
                              Len(idx) = srv.sessions[rec.uploadId].expected
                       /\ \A o \in RunIds \ {r} : run[o].uploadId # rec.uploadId)
    /\ [][\A r \in RunIds :
             (/\ Answered(r)
              /\ net[r].req.kind = "init"
              /\ srv' # srv \/ (net'[r].resp.ok /\ net'[r].outcome # "transport")) =>
                 LET id == net'[r].resp.uploadId
                 IN /\ id \notin SessionIds(srv)
                    /\ id \in SessionIds(srv')
                    /\ srv'.sessions[id].received = {}
                    /\ srv'.sessions[id].stored = NoChunks
                    /\ \A old \in SessionIds(srv) : srv'.sessions[old] = srv.sessions[old]]_vars

C25_Witness ==
    /\ run[1].pc = "rejected"
    /\ run[1].error = Error("chunk", 1, "transport")
    /\ run[1].uploadId = 1
    /\ srv.sessions[1].state = "active"
    /\ srv.sessions[1].received = {0}
    /\ run[2].size = run[1].size
    /\ run[2].uploadId = 2
    /\ ChunkRequestIndices(run[2].trace) = <<0, 1>>
    /\ run[2].pc = "resolved"
    /\ srv.sessions[2].state = "completed"

\* C26: createFileChunks is deterministic: the sequence a call returns is a
\* function of the file size and the chunk size alone, so a call with the
\* arguments of the call before it returns the same sequence, whatever was
\* called earlier.
C26_Deterministic ==
    cf.pc = "returned" =>
        /\ cf.chunks = createFileChunks(cf.size, cf.chunkSize)
        /\ (cf.calls >= 2 /\ cf.prev.size = cf.size /\ cf.prev.chunkSize = cf.chunkSize) =>
               cf.chunks = cf.prev.chunks

C26_Witness ==
    /\ cf.pc = "returned"
    /\ cf.calls = 2
    /\ cf.prev = [size |-> 7, chunkSize |-> 3, chunks |-> createFileChunks(7, 3)]
    /\ cf.size = 7
    /\ cf.chunkSize = 3
    /\ Len(cf.chunks) = 3

\* C27 (as claimed): for every file size S >= 0 and every chunk size it is
\* given, zero and negative ones included, createFileChunks terminates: the
\* call eventually returns.
C27_AlwaysTerminates == <>(cf.pc = "returned")

\* Why the loop does not end for a chunk size of zero or less: a pass never
\* moves start forward, so start < file.size holds again after it.
C27_NoProgressWithoutPositiveChunkSize ==
    [][(cf.pc = "loop" /\ cf.chunkSize <= 0 /\ cf'.pc = "loop") =>
           /\ cf'.start <= cf.start
           /\ cf'.start < cf'.size
           /\ Len(cf'.chunks) = Len(cf.chunks) + 1]_vars

\* the change at position j is the last of its burst: the next change, if
\* any, comes no sooner than the wait after it
BurstEnd(j) ==
    \/ j = Len(agent.changes)
    \/ agent.changes[j + 1].at - agent.changes[j].at >= DebounceWaitMs

\* C28 (as claimed): every change sets the local selection at once, and
\* selectAgent is called exactly once per burst of changes less than 500 ms
\* apart: 500 ms after the last change of the burst, with the agent id of
\* that change, and at no other time.
C28_DebouncedOncePerBurst ==
    /\ [](LET ch == agent.changes
              cl == agent.calls
          IN /\ \A k \in 1..Len(cl) :
                   \E j \in 1..Len(ch) :
                       /\ BurstEnd(j)
                       /\ cl[k].at = ch[j].at + DebounceWaitMs
                       /\ cl[k].agentId = ch[j].agentId
             /\ \A k \in 1..Len(cl) : \A l \in 1..Len(cl) :
                   k # l => cl[k].at # cl[l].at
             /\ \A j \in 1..Len(ch) :
                   (BurstEnd(j) /\ ch[j].at + DebounceWaitMs < agent.now) =>
                       \E k \in 1..Len(cl) : cl[k].at = ch[j].at + DebounceWaitMs)
    /\ [][Len(agent'.changes) > Len(agent.changes) =>
              agent'.localSelectedAgent =
                  agent'.changes[Len(agent'.changes)].agentId]_vars

Pending(rec) == rec.pc \in {"awaitInit", "awaitChunk", "awaitComplete"}

Settled(rec) == rec.pc \in {"resolved", "rejected"}

\* C29: if every request is answered in the end, every run that was called
\* settles, resolved or rejected, having sent at most totalChunks + 2
\* requests; and a pending run moves only when the response to its request
\* has arrived: there is no timeout and no cancellation, so a run whose
\* response never arrives stays pending.
C29_SettlesIfAnswered ==
    /\ \A r \in SpecRunIds : Pending(run[r]) ~> Settled(run[r])
    /\ [](\A r \in RunIds :
             /\ Len(SelectSeq(run[r].trace, IsRequest)) <= run[r].totalChunks + 2
             /\ Pending(run[r]) => net[r].stage \in {"request", "response"})
    /\ [][\A r \in RunIds :
             /\ (Pending(run[r]) /\ run'[r] # run[r]) => net[r].stage = "response"
             /\ Settled(run[r]) => run'[r] = run[r]]_vars

C29_Witness ==
    \E r \in RunIds :
        /\ run[r].pc = "resolved"
        /\ run[r].totalChunks = 3
        /\ Len(SelectSeq(run[r].trace, IsRequest)) = run[r].totalChunks + 2

\* C30: when the server handles an abort of a run's session before the
\* complete request, the run is not cancelled (the abort call touches neither
\* the run nor its request in flight), every request of the run the server
\* handles afterwards is rejected, the run ends at the first such response,
\* onSuccess is never invoked and the session never has an artifact.
C30_AbortBeforeComplete ==
    /\ [](\A r \in RunIds :
             LET rec == run[r]
                 id == rec.uploadId
             IN (id \in SessionIds(srv) /\ srv.sessions[id].state = "aborted") =>
                    /\ ~srv.sessions[id].artifact.present
                    /\ rec.pc # "resolved"
                    /\ SelectSeq(rec.trace, IsOnSuccess) = <<>>
                    /\ Len(SelectSeq(rec.trace, IsFailure)) <= 1
                    /\ \A p \in Positions(rec.trace) :
                           IsFailure(rec.trace[p]) => p >= Len(rec.trace) - 1)
    /\ [][/\ ab' # ab => (run' = run /\ net' = net)
          /\ \A r \in RunIds :
                (/\ Answered(r)
                 /\ srv' # srv \/ net'[r].outcome # "transport"
                 /\ net[r].req.uploadId \in SessionIds(srv)
                 /\ srv.sessions[net[r].req.uploadId].state = "aborted")
                => /\ ~net'[r].resp.ok
                   /\ net'[r].resp.err = "SessionNotActive"
                   /\ srv' = srv]_vars

C30_Witness ==
    \E r \in RunIds :
        /\ run[r].pc = "rejected"
        /\ run[r].error = Error("chunk", 1, "status")
        /\ run[r].totalChunks = 3
        /\ srv.sessions[run[r].uploadId].state = "aborted"
        /\ srv.sessions[run[r].uploadId].receivedAtAbort = 1
        /\ ab.pc = "resolved"

(***************************************************************************)
(* Failure reported by the client against the artifact on the server.      *)
(***************************************************************************)
\* some session of the server holds a finalized artifact
ArtifactExists == \E id \in SessionIds(srv) : srv.sessions[id].artifact.present

\* the failures of a run that happen after a success response to complete
\* may exist: the complete fetch rejected, its body could not be read, or
\* onSuccess threw
AfterCompleteSent(error) ==
    \/ error.origin = "complete" /\ error.cause \in {"transport", "body"}
    \/ error.origin = "onSuccess"

\* C31 (as claimed): whenever a run has ended in failure, the server holds
\* no finalized artifact.
C31_FailureMeansNoArtifact ==
    \A r \in RunIds : run[r].pc = "rejected" => ~ArtifactExists

\* C31 (amended): a run that failed at init, at a chunk, in onProgress or
\* with an error status of complete leaves no finalized artifact; a run
\* that failed with an artifact on the server failed after the server had
\* handled its complete request with success (response lost, body unreadable
\* or onSuccess throwing), and the artifact is the whole file.
C31_FailureBeforeCompleteMeansNoArtifact ==
    \A r \in RunIds :
        LET rec == run[r]
        IN (rec.pc = "rejected" /\ ArtifactExists) =>
               /\ AfterCompleteSent(rec.error)
               /\ rec.uploadId \in SessionIds(srv)
               /\ srv.sessions[rec.uploadId].state = "completed"
               /\ srv.sessions[rec.uploadId].artifact.present
               /\ srv.sessions[rec.uploadId].artifact.bytes = FileBytes(rec.size)

C31_Witness ==
    \E r \in RunIds :
        /\ run[r].pc = "rejected"
        /\ run[r].error = Error("complete", 0, "transport")
        /\ run[r].totalChunks = 3
        /\ srv.sessions[run[r].uploadId].state = "completed"
        /\ srv.sessions[run[r].uploadId].artifact.present

(***************************************************************************)
(* The callbacks of a settled run.                                         *)
(***************************************************************************)
Invocations(rec, type) == Len(SelectSeq(rec.trace, LAMBDA e : e.type = type))

\* C32 (as claimed): a settled run has invoked exactly one of onSuccess and
\* onError, exactly once, whatever the network and the callbacks did.
C32_ExactlyOneCallback ==
    \A r \in RunIds :
        Settled(run[r]) =>
            Invocations(run[r], "onSuccess") + Invocations(run[r], "onError") = 1

\* C32 (what the code does): onError is invoked once by every rejected run
\* and by no resolved one, onSuccess at most once, and both are invoked
\* exactly when onSuccess threw.
C32_BothOnlyWhenOnSuccessThrows ==
    \A r \in RunIds :
        LET rec == run[r]
        IN Settled(rec) =>
               /\ Invocations(rec, "onError") = (IF rec.pc = "rejected" THEN 1 ELSE 0)
               /\ Invocations(rec, "onSuccess") <= 1
               /\ rec.pc = "resolved" => Invocations(rec, "onSuccess") = 1
               /\ (rec.pc = "rejected" /\ Invocations(rec, "onSuccess") = 1)
                      <=> rec.error.origin = "onSuccess"

\* C33: onSuccess is invoked only right after a success response to the
\* complete request; the progress callback has then been invoked exactly
\* totalChunks times, the last of its events (if any) reporting
\* uploadedChunks = totalChunks; and a resolved run resolves to the value
\* that was passed to onSuccess.
C33_OnSuccessAfterCompleteAndAllProgress ==
    \A r \in RunIds :
        LET rec == run[r]
            tr == rec.trace
        IN /\ \A p \in Positions(tr) :
                  IsOnSuccess(tr[p]) =>
                      LET before == SubSeq(tr, 1, p - 1)
                          progress == SelectSeq(before, IsOnProgress)
                      IN /\ p > 1
                         /\ tr[p - 1].type = "response"
                         /\ tr[p - 1].kind = "complete"
                         /\ tr[p - 1].ok
                         /\ tr[p - 1].outcome = "delivered"
                         /\ Len(progress) = rec.totalChunks
                         /\ progress # <<>> =>
                                progress[Len(progress)].uploadedChunks = rec.totalChunks
                         /\ rec.uploadedChunks = rec.totalChunks
           /\ rec.pc = "resolved" =>
                  /\ Invocations(rec, "onSuccess") = 1
                  /\ tr[Len(tr)] = [type |-> "onSuccess", result |-> rec.result]

C33_Witness ==
    \E r \in RunIds :
        /\ run[r].pc = "resolved"
        /\ run[r].totalChunks = 3
        /\ Invocations(run[r], "onProgress") = 3
        /\ run[r].result = [uploadId |-> run[r].uploadId, size |-> run[r].size]

\* C34: the totalChunks a run declares in its init request is
\* ceil(size / chunkSize); the session created for that request has it as
\* its expected chunk count, unchanged for as long as the session exists;
\* and a run that has sent complete has sent exactly that many chunk
\* requests before it.
C34_TotalChunksIsCeiling ==
    /\ [](\A r \in RunIds :
             LET rec == run[r]
                 tr == rec.trace
                 n == CeilDiv(rec.size, rec.chunkSize)
             IN rec.pc \notin {"idle", "unused"} =>
                    /\ rec.totalChunks = n
                    /\ IsRequest(tr[1])
                    /\ tr[1].req.kind = "init"
                    /\ tr[1].req.body.totalChunks = n
                    /\ rec.uploadId # 0 =>
                           /\ rec.uploadId \in SessionIds(srv)
                           /\ srv.sessions[rec.uploadId].expected = n
                    /\ \A p \in Positions(tr) :
                           (IsRequest(tr[p]) /\ tr[p].req.kind = "complete") =>
                               Len(SelectSeq(SubSeq(tr, 1, p - 1), IsChunkRequest)) = n)
    /\ [][\A id \in SessionIds(srv) :
              /\ id \in SessionIds(srv')
              /\ srv'.sessions[id].expected = srv.sessions[id].expected]_vars

C34_Witness ==
    \E r \in RunIds :
        /\ run[r].pc = "resolved"
        /\ run[r].size = 5
        /\ run[r].chunkSize = 2
        /\ run[r].totalChunks = 3
        /\ srv.sessions[run[r].uploadId].expected = 3
        /\ Len(SelectSeq(run[r].trace, IsChunkRequest)) = 3

\* the bytes [from, to) of a file
ByteRange(from, to) == [k \in 1..(to - from) |-> from + k - 1]

\* C35: every chunk request and the complete request of a run carry the
\* uploadId of the run's own init response (the one init response of its
\* trace) and no other, and the chunk request with chunkIndex i carries the
\* bytes [i * chunkSize, min((i + 1) * chunkSize, size)) of the file.
C35_OwnUploadIdAndByteRange ==
    \A r \in RunIds :
        LET rec == run[r]
            tr == rec.trace
        IN \A p \in Positions(tr) :
               (IsRequest(tr[p]) /\ tr[p].req.kind \in {"chunk", "complete"}) =>
                   /\ IsResponse(tr[2])
                   /\ tr[2].kind = "init"
                   /\ tr[2].ok
                   /\ tr[2].outcome = "delivered"
                   /\ tr[p].req.uploadId = tr[2].uploadId
                   /\ \A q \in Positions(tr) :
                          (IsResponse(tr[q]) /\ tr[q].kind = "init") => q = 2
                   /\ tr[p].req.kind = "chunk" =>
                          LET i == tr[p].req.chunkIndex
                          IN /\ i \in 0..(rec.totalChunks - 1)
                             /\ rec.chunks[i + 1].start = i * rec.chunkSize
                             /\ tr[p].req.body =
                                    ByteRange(i * rec.chunkSize,
                                              Min((i + 1) * rec.chunkSize, rec.size))

C35_Witness ==
    \E r \in RunIds :
        LET tr == run[r].trace
        IN /\ run[r].size = 5
           /\ run[r].chunkSize = 2
           /\ \E p \in Positions(tr) :
                  /\ IsChunkRequest(tr[p])
                  /\ tr[p].req.chunkIndex = 2
                  /\ tr[p].req.body = <<4>>
                  /\ tr[p].req.uploadId = tr[2].uploadId
           /\ \E p \in Positions(tr) :
                  /\ IsRequest(tr[p])
                  /\ tr[p].req.kind = "complete"
                  /\ tr[p].req.uploadId = tr[2].uploadId

\* C36: for every size >= 0 and chunkSize > 0 the loop of createFileChunks
\* terminates after exactly ceil(size / chunkSize) iterations: every
\* iteration pushes one chunk and strictly increases start, and
\* 0 <= start <= size holds before and after every iteration.
C36_LoopTerminatesInCeilingIterations ==
    /\ [](0 <= cf.start /\ cf.start <= cf.size)
    /\ [][cf.pc = "loop" /\ cf'.pc = "loop" =>
              /\ cf'.start > cf.start
              /\ Len(cf'.chunks) = Len(cf.chunks) + 1]_vars
    /\ <>(cf.pc = "returned")
    /\ [](cf.pc = "returned" =>
              /\ Len(cf.chunks) = CeilDiv(cf.size, cf.chunkSize)
              /\ cf.start = cf.size)

C36_Witness ==
    /\ cf.pc = "returned"
    /\ cf.size = 12
    /\ cf.chunkSize = 5
    /\ cf.start = 12
    /\ Len(cf.chunks) = 3

(***************************************************************************)
(* ChatContainer: the message of a failed send.                            *)
(***************************************************************************)
\* the catch of send s runs in this step
SendFails(s) == chat.sends[s].pc = "awaiting" /\ chat'.sends[s].pc = "failed"

\* C37 (as claimed): when api.chat.sendMessage fails, the message appended
\* for that send ends with status 'failed', whatever time has passed since
\* it was appended, and no other message's status is changed.
C37_FailedSendMarkedFailed ==
    [][\A s \in SendIds :
           SendFails(s) =>
               LET at == chat.sends[s].at
               IN /\ chat'.messages[at].status = "failed"
                  /\ \A p \in DOMAIN chat.messages \ {at} :
                         chat'.messages[p].status = chat.messages[p].status]_vars

\* C37 (what the code does): the catch marks the messages whose id is
\* temp-<time of the failure>, whichever send appended them, and leaves
\* every other message as it was.
C37_FailedOnlyWithinSameMillisecond ==
    [][\A s \in SendIds :
           SendFails(s) =>
               /\ DOMAIN chat'.messages = DOMAIN chat.messages
               /\ \A p \in DOMAIN chat.messages :
                      chat'.messages[p] =
                          IF chat.messages[p].id = TempId(chat.now)
                          THEN [chat.messages[p] EXCEPT !.status = "failed"]
                          ELSE chat.messages[p]]_vars

\* a send failed a millisecond after it was made and its message still says
\* 'sending'
C37_StaysSending ==
    \E s \in SendIds :
        /\ chat.sends[s].pc = "failed"
        /\ chat.messages[chat.sends[s].at].id = chat.sends[s].newMessage
        /\ chat.messages[chat.sends[s].at].status = "sending"

\* a failed send marked the message of another send, which later succeeded
\* or is still awaited
C37_OtherMarkedFailed ==
    \E s \in SendIds, o \in SendIds :
        /\ o # s
        /\ chat.sends[s].pc = "failed"
        /\ chat.sends[o].pc = "awaiting"
        /\ chat.sends[o].newMessage # chat.sends[s].newMessage
        /\ chat.messages[chat.sends[o].at].status = "failed"
        /\ chat.messages[chat.sends[s].at].status = "sending"

(***************************************************************************)
(* ImageWithPlaceholder: the views and the hue.                            *)
(***************************************************************************)
Shown(im) ==
    (IF PlaceholderShown(im) THEN 1 ELSE 0) + (IF ErrorShown(im) THEN 1 ELSE 0)
        + (IF ImageShown(im) THEN 1 ELSE 0)

\* C38 (as claimed): after any sequence of load and error events, also
\* across changes of src, exactly one of placeholder, error state and image
\* is shown, and the hue computed from the URL is an integer in [0, 360).
C38_OneViewAndHueInRange ==
    /\ Shown(image) = 1
    /\ image.src # <<>> => getPlaceholderColor(image.src).hue \in 0..359

\* C38 (what the code does): at least one view is shown and the placeholder
\* never with another; error state and image are shown together once both
\* events have happened; the hue is an integer in (-360, 360), not negative
\* for URLs of up to five of the characters used here.
C38_ViewsAndSignedHue ==
    /\ Shown(image) \in {1, 2}
    /\ PlaceholderShown(image) => Shown(image) = 1
    /\ Shown(image) = 2 <=> (image.isLoaded /\ image.hasError)
    /\ getPlaceholderColor(image.src).hue \in (0 - 359)..359
    /\ Len(image.src) <= 5 => getPlaceholderColor(image.src).hue >= 0

\* error state and image shown together
C38_BothShown == ErrorShown(image) /\ ImageShown(image) /\ ~image.loading

\* a negative hue
C38_NegativeHue ==
    /\ image.src = <<97, 97, 97, 97, 97, 97>>
    /\ getPlaceholderColor(image.src) = [kind |-> "hsl", hue |-> 0 - 304]

====
